---- MODULE Spec2Model ----
(***************************************************************************)
(* A model of ts-cli-grpc-plugin: the go-plugin protocol bridge written in *)
(* TypeScript (ts-cli-grpc-plugin/src/index.ts).                           *)
(*                                                                         *)
(* Strings are sequences of one-character strings, so that concatenation,  *)
(* prefix tests, the port regular expression and String.split are computed *)
(* character by character as the JavaScript code computes them.            *)
(***************************************************************************)
EXTENDS Integers, Sequences, FiniteSets, TLC

\* ------------------------------------------------------------------ bounds

\* Longest address enumerated over AddrAlphabet for the formatter.
MaxAddrLen == 3
\* Largest core protocol version given to the formatter.
MaxCore == 2
\* Largest application protocol version given to the formatter.
MaxApp == 12

\* ----------------------------------------------------------------- strings

Digits == <<"0", "1", "2", "3", "4", "5", "6", "7", "8", "9">>

IsDigit(c) == \E d \in 1..10 : Digits[d] = c

DigitVal(c) == (CHOOSE d \in 1..10 : Digits[d] = c) - 1

RECURSIVE NatToStr(_)
\* Decimal rendering of a non-negative integer, most significant digit first.
NatToStr(n) ==
  IF n < 10 THEN <<Digits[n + 1]>>
  ELSE NatToStr(n \div 10) \o <<Digits[(n % 10) + 1]>>

\* What a template literal `${n}` yields for an integer n.
NumToStr(n) == IF n < 0 THEN <<"-">> \o NatToStr(-n) ELSE NatToStr(n)

RECURSIVE StrToNat(_)
\* The value of a non-empty string of decimal digits.
StrToNat(s) ==
  IF Len(s) = 0 THEN 0
  ELSE 10 * StrToNat(SubSeq(s, 1, Len(s) - 1)) + DigitVal(s[Len(s)])

\* String.prototype.startsWith
StartsWith(s, p) == Len(s) >= Len(p) /\ SubSeq(s, 1, Len(p)) = p

\* The index of the first occurrence of character c in s, 0 when there is none.
IndexOf(s, c) ==
  IF \E k \in 1..Len(s) : s[k] = c
  THEN CHOOSE k \in 1..Len(s) : s[k] = c /\ \A j \in 1..(k - 1) : s[j] # c
  ELSE 0

RECURSIVE Split(_, _)
\* String.prototype.split on a one-character separator: "a|" gives <<"a", "">>
\* and the empty string gives one empty field.
Split(s, c) ==
  LET k == IndexOf(s, c)
  IN  IF k = 0 THEN <<s>>
      ELSE <<SubSeq(s, 1, k - 1)>> \o Split(SubSeq(s, k + 1, Len(s)), c)

\* All strings over alphabet A of length at most n.
StringsUpTo(A, n) == UNION {[1..k -> A] : k \in 0..n}

\* --------------------------------------------------------------- constants

PIPE == "|"
NEWLINE == "\n"

Tcp == <<"t", "c", "p">>
Unix == <<"u", "n", "i", "x">>
Grpc == <<"g", "r", "p", "c">>
Netrpc == <<"n", "e", "t", "r", "p", "c">>

\* type NetworkType = 'tcp' | 'unix'
NetworkType == {Tcp, Unix}

\* protocol: 'grpc' | 'netrpc'
Protocol == {Grpc, Netrpc}

\* ---------------------------------------------------------- formatHandshake

\* A variant that puts a blank after each separator.
formatHandshakeSpaced(coreProtocolVersion, appProtocolVersion, networkType, address, protocol) ==
  NumToStr(coreProtocolVersion) \o <<PIPE, " ">> \o NumToStr(appProtocolVersion)
    \o <<PIPE, " ">> \o networkType \o <<PIPE, " ">> \o address \o <<PIPE, " ">> \o protocol

\* A variant that swaps the network and address fields.
formatHandshakeSwapped(coreProtocolVersion, appProtocolVersion, networkType, address, protocol) ==
  NumToStr(coreProtocolVersion) \o <<PIPE>> \o NumToStr(appProtocolVersion)
    \o <<PIPE>> \o address \o <<PIPE>> \o networkType \o <<PIPE>> \o protocol

\* `${coreProtocolVersion}|${appProtocolVersion}|${networkType}|${address}|${protocol}`
formatHandshake(coreProtocolVersion, appProtocolVersion, networkType, address, protocol) ==
  NumToStr(coreProtocolVersion) \o <<PIPE>> \o NumToStr(appProtocolVersion)
    \o <<PIPE>> \o networkType \o <<PIPE>> \o address \o <<PIPE>> \o protocol

\* ------------------------------------------------------------ JavaScript values

\* The printable ASCII characters in code order, from 32 (space) to 126 (~);
\* the grave accent (96) is spelled out and stands in no string of the model.
AsciiPrintable ==
  <<" ", "!", "\"", "#", "$", "%", "&", "'", "(", ")", "*", "+", ",", "-", ".", "/",
    "0", "1", "2", "3", "4", "5", "6", "7", "8", "9", ":", ";", "<", "=", ">", "?",
    "@", "A", "B", "C", "D", "E", "F", "G", "H", "I", "J", "K", "L", "M", "N", "O",
    "P", "Q", "R", "S", "T", "U", "V", "W", "X", "Y", "Z", "[", "\\", "]", "^", "_",
    "grave", "a", "b", "c", "d", "e", "f", "g", "h", "i", "j", "k", "l", "m", "n", "o",
    "p", "q", "r", "s", "t", "u", "v", "w", "x", "y", "z", "{", "|", "}", "~">>

\* The code unit of an ASCII character.
CharCode(c) ==
  IF c = NEWLINE THEN 10
  ELSE 31 + (CHOOSE k \in 1..Len(AsciiPrintable) : AsciiPrintable[k] = c)

\* Buffer.from(str): the UTF-8 bytes of an ASCII string.
Utf8(s) == [k \in 1..Len(s) |-> CharCode(s[k])]

RECURSIVE JoinComma(_)
\* String(uint8Array): the elements in decimal, joined by commas.
JoinComma(bytes) ==
  IF Len(bytes) = 0 THEN <<>>
  ELSE IF Len(bytes) = 1 THEN NumToStr(bytes[1])
  ELSE NumToStr(bytes[1]) \o <<",">> \o JoinComma(Tail(bytes))

\* A value that `unknown` may hold, as far as the guards look at it: its
\* typeof tag, whether it is truthy, and (for objects) its own keys.
JsUndefined == [t |-> "undefined", truthy |-> FALSE, keys |-> {}]
JsNull == [t |-> "object", truthy |-> FALSE, keys |-> {}]
JsObject(keys) == [t |-> "object", truthy |-> TRUE, keys |-> keys]
JsString(nonEmpty) == [t |-> "string", truthy |-> nonEmpty, keys |-> {}]
JsNumber(nonZero) == [t |-> "number", truthy |-> nonZero, keys |-> {}]

\* A guard that looks at no key.
isGrpcHealthPackageAnyObject(value) == value.truthy /\ value.t = "object"

\* !!v && typeof v === 'object' && 'Health' in v
isGrpcHealthPackage(value) ==
  value.truthy /\ value.t = "object" /\ "Health" \in value.keys

\* A guard that takes the Health key for the plugin key.
isPluginInternalPackagesHealthKey(value) ==
  value.truthy /\ value.t = "object" /\ "Health" \in value.keys

\* !!v && typeof v === 'object' && 'plugin' in v
isPluginInternalPackages(value) ==
  value.truthy /\ value.t = "object" /\ "plugin" \in value.keys

\* ------------------------------------------------------------- environment

\* What the file system holds for the health proto: the file is missing
\* (protoLoader.loadSync throws), or it loads and loadedRoot?.grpc?.health?.v1
\* is the given value.
HealthEnv ==
  {[file |-> FALSE, v1 |-> JsUndefined],
   [file |-> TRUE, v1 |-> JsUndefined],
   [file |-> TRUE, v1 |-> JsObject({})],
   [file |-> TRUE, v1 |-> JsObject({"Health"})]}

\* Whether go-plugin's grpc_stdio.proto and grpc_controller.proto are present
\* in one of the candidate directories.
InternalEnv == [stdioFile : BOOLEAN, controllerFile : BOOLEAN]

\* Ports the operating system hands out when port 0 is requested.
EphemeralPorts == {8, 12}

\* The ports grpc-js may bind when the target names none.
UnspecifiedPorts == {443}

\* ------------------------------------------------------------------ Health

SERVING == 1
SERVICE_UNKNOWN == 3

HealthNames == {"", "plugin", "other"}

\* A table that reports the plugin as not serving.
InitialStatusMapNotServing == [n \in {"plugin"} |-> 2]

\* statusMap after statusMap.set('plugin', ServingStatus.SERVING)
InitialStatusMap == [n \in {"plugin"} |-> SERVING]

\* statusMap.get(name) ?? ServingStatus.SERVICE_UNKNOWN
StatusOf(map, name) == IF name \in DOMAIN map THEN map[name] ELSE SERVICE_UNKNOWN

\* A Check that looks the empty name up as it is.
CheckStatusNoDefault(map, request) ==
  StatusOf(map, IF request.hasService THEN request.service ELSE "")

\* Check: call.request?.service || '' and then (service || 'plugin').
CheckStatus(map, request) ==
  LET service == IF request.hasService /\ request.service # "" THEN request.service ELSE ""
  IN  StatusOf(map, IF service # "" THEN service ELSE "plugin")

\* A Watch that pushes the status twice.
WatchResultTwice(map, request) ==
  LET service == IF request.hasService /\ request.service # "" THEN request.service
                 ELSE "plugin"
  IN  [pushed |-> <<StatusOf(map, service), StatusOf(map, service)>>, ended |-> FALSE]

\* Watch: call.request?.service || 'plugin', then call.write({ status }) once;
\* the handler returns without call.end().
WatchResult(map, request) ==
  LET service == IF request.hasService /\ request.service # "" THEN request.service
                 ELSE "plugin"
  IN  [pushed |-> <<StatusOf(map, service)>>, ended |-> FALSE]

\* The requests a host may send: the service field absent, or one of the names.
HealthRequests ==
  {[hasService |-> FALSE, service |-> ""]}
    \cup {[hasService |-> TRUE, service |-> n] : n \in HealthNames}

\* ---------------------------------------------------------------- addresses

\* /:\d+$/.test(s)
HasPortSuffix(s) ==
  \E k \in 1..(Len(s) - 1) : s[k] = ":" /\ \A j \in (k + 1)..Len(s) : IsDigit(s[j])

\* s.split(':')[0]
FirstColonField(s) ==
  LET k == IndexOf(s, ":") IN IF k = 0 THEN s ELSE SubSeq(s, 1, k - 1)

UnixPrefix == <<"u", "n", "i", "x", ":">>
Localhost == <<"1", "2", "7", ".", "0", ".", "0", ".", "1">>

\* A normalisation that prefixes every unix address.
BindAddressAlwaysPrefix(networkType, address) ==
  LET a1 == IF networkType = Unix THEN UnixPrefix \o address ELSE address
  IN  IF networkType = Tcp /\ ~HasPortSuffix(a1) THEN a1 \o <<":", "0">> ELSE a1

\* bindAddress as computed before server.bindAsync.
BindAddress(networkType, address) ==
  LET a1 == IF networkType = Unix /\ ~StartsWith(address, UnixPrefix)
            THEN UnixPrefix \o address ELSE address
  IN  IF networkType = Tcp /\ ~HasPortSuffix(a1) THEN a1 \o <<":", "0">> ELSE a1

\* advertisedAddress as computed after the bind returned `port`.
AdvertisedAddress(networkType, bindAddress, port) ==
  IF networkType = Tcp
  THEN LET host == IF FirstColonField(bindAddress) = <<>> THEN Localhost
                   ELSE FirstColonField(bindAddress)
       IN  host \o <<":">> \o NumToStr(port)
  ELSE bindAddress

\* How grpc-js reads the port out of a target: "[v6]:port" and "host:port"
\* (one colon) carry a port, anything else is a host alone.
\* -1 stands for "no port given".
TargetPort(target) ==
  LET colons == {k \in 1..Len(target) : target[k] = ":"}
      close == IndexOf(target, "]")
      digitsFrom(k) == k <= Len(target) /\ \A j \in k..Len(target) : IsDigit(target[j])
  IN  IF Len(target) > 0 /\ target[1] = "["
      THEN IF close > 0 /\ close < Len(target) /\ target[close + 1] = ":"
                /\ digitsFrom(close + 2)
           THEN StrToNat(SubSeq(target, close + 2, Len(target)))
           ELSE -1
      ELSE IF Cardinality(colons) = 1 /\ digitsFrom(IndexOf(target, ":") + 1)
           THEN StrToNat(SubSeq(target, IndexOf(target, ":") + 1, Len(target)))
           ELSE -1

\* What server.bindAsync may call back with: an error, or the bound port. A
\* unix socket binds as port 1; port 0 is replaced by a port the operating
\* system picks; a target without a port binds a port of the library's choosing.
BindOutcomes(networkType, bindAddress) ==
  {[ok |-> FALSE, port |-> 0]}
    \cup {[ok |-> TRUE, port |-> p] :
            p \in IF networkType = Unix THEN {1}
                  ELSE IF TargetPort(bindAddress) = 0 THEN EphemeralPorts
                  ELSE IF TargetPort(bindAddress) = -1 THEN UnspecifiedPorts
                  ELSE {TargetPort(bindAddress)}}

\* ------------------------------------------------------------------- state

\* options.networkType left out.
Undefined == <<>>

\* The largest number of servePlugin calls made in one process.
MaxCalls == 2
\* The largest number of Health Watch subscriptions opened.
MaxWatches == 2
\* The largest number of GRPCStdio streams opened.
MaxStreams == 2
\* The largest number of writes the plugin's own code makes to stdout/stderr.
MaxWrites == 2
\* The largest number of Shutdown calls the host makes.
MaxShutdowns == 2
\* The largest number of subscriptions, streams and writes taken together when
\* all the operations of the bridge are explored at once.
MaxLoad == 2

Instances == 1..MaxCalls

VARIABLES
  fmtIn,        \* the arguments of one formatHandshake call
  fmtOut,       \* its result: [done |-> FALSE] before the call returns
  helperIn,     \* the arguments of the calls of loadProtos or createRegistrar
  helperOut,    \* what those calls did: [invoked, registerCalls, results]
  files,        \* the kv_<key> files of the working directory: name -> bytes
  kvCalls,      \* the get and put calls made on the example KV service
  env,          \* the file system: [health, internal]
  pc,           \* pc[i]: where servePlugin call i stands
  options,      \* options[i]: the ServeOptions given to call i
  server,       \* server[i]: the grpc.Server of call i
  statusMap,    \* statusMap[i]: the health status table of call i
  bindAddress,  \* bindAddress[i]: the address given to bindAsync
  result,       \* result[i]: what the promise settled with
  log,          \* log[i]: what call i has done so far, in order
  stdoutWrite,  \* the interception layers on process.stdout.write, innermost first
  stderrWrite,  \* the interception layers on process.stderr.write, innermost first
  realOut,      \* the writes that reached the original stdout and stderr, in order
  stdioStream,  \* stdioStream[i]: the stream call i's forward() writes to, 0 for none
  streams,      \* the GRPCStdio streams opened so far
  watches,      \* the Health Watch subscriptions opened so far
  checkResp,    \* the last Health Check response
  shutdownResp, \* shutdownResp[i]: the responses sent to Shutdown calls on server i
  exitTimers,   \* pending setImmediate(() => process.exit(0)) callbacks
  exitCode,     \* -1 while the process runs, then its exit code
  writeCount    \* the writes made so far by the plugin's own code

fmtVars == <<fmtIn, fmtOut, helperIn, helperOut, files, kvCalls>>

startVars ==
  <<env, pc, options, server, statusMap, bindAddress, result, log, stdoutWrite,
    stderrWrite>>

rpcVars == <<stdioStream, watches, checkResp, shutdownResp, exitTimers, exitCode>>

outVars == <<realOut, streams, writeCount>>

serveVars == <<startVars, rpcVars, outVars>>

vars == <<fmtVars, startVars, rpcVars, outVars>>

NoOptions == [appProtocolVersion |-> 0, address |-> <<>>, networkType |-> Undefined,
              register |-> "none"]

NoServer ==
  [services |-> <<>>, bound |-> FALSE, started |-> FALSE, shutdown |-> FALSE, port |-> 0]

NoResult ==
  [settled |-> FALSE, ok |-> FALSE, server |-> 0, address |-> <<>>, error |-> "none"]

NoCheck == [inst |-> 0, request |-> [hasService |-> FALSE, service |-> ""],
            status |-> 0, error |-> FALSE]

\* Before any servePlugin call, in a process whose file system is `e`.
InitServe(e) ==
  /\ env = e
  /\ pc = [i \in Instances |-> "idle"]
  /\ options = [i \in Instances |-> NoOptions]
  /\ server = [i \in Instances |-> NoServer]
  /\ statusMap = [i \in Instances |-> <<>>]
  /\ bindAddress = [i \in Instances |-> <<>>]
  /\ result = [i \in Instances |-> NoResult]
  /\ log = [i \in Instances |-> <<>>]
  /\ stdoutWrite = <<>>
  /\ stderrWrite = <<>>
  /\ realOut = <<>>
  /\ stdioStream = [i \in Instances |-> 0]
  /\ streams = <<>>
  /\ watches = <<>>
  /\ checkResp = NoCheck
  /\ shutdownResp = [i \in Instances |-> 0]
  /\ exitTimers = 0
  /\ exitCode = -1
  /\ writeCount = 0

\* The formatter's variables when the formatter is not what is being run.
FormatIdle ==
  /\ fmtIn = [core |-> 1, app |-> 1, networkType |-> Tcp, address |-> <<>>,
              protocol |-> Grpc]
  /\ fmtOut = [done |-> FALSE]
  /\ helperIn = [fn |-> "none", filesExist |-> TRUE, loaded |-> JsUndefined,
                 assert |-> "undefined", throwsOn |-> {}]
  /\ helperOut = [invoked |-> <<>>, registerCalls |-> <<>>, results |-> <<>>]
  /\ files = <<>>
  /\ kvCalls = <<>>

\* ------------------------------------------- the formatter as a state machine

AddrAlphabet == {"a", ":", PIPE}

ExampleAddress == <<"1", "2", "7", ".", "0", ".", "0", ".", "1", ":", "1", "2", "3", "4">>

FormatAddresses == StringsUpTo(AddrAlphabet, MaxAddrLen) \cup {ExampleAddress}

FormatInputs ==
  [core : 0..MaxCore, app : (0..MaxApp) \cup {42}, networkType : NetworkType,
   address : FormatAddresses, protocol : Protocol]

NotFormatted == [done |-> FALSE]

InitFormat ==
  /\ fmtIn \in FormatInputs
  /\ fmtOut = NotFormatted
  /\ helperIn = [fn |-> "none", filesExist |-> TRUE, loaded |-> JsUndefined,
                 assert |-> "undefined", throwsOn |-> {}]
  /\ helperOut = [invoked |-> <<>>, registerCalls |-> <<>>, results |-> <<>>]
  /\ files = <<>>
  /\ kvCalls = <<>>
  /\ InitServe([health |-> [file |-> TRUE, v1 |-> JsObject({"Health"})],
                internal |-> [stdioFile |-> FALSE, controllerFile |-> FALSE]])

\* One call of formatHandshake on the arguments drawn in InitFormat.
Format ==
  /\ fmtOut = NotFormatted
  /\ fmtOut' = [done |-> TRUE,
                value |-> formatHandshake(fmtIn.core, fmtIn.app, fmtIn.networkType,
                                          fmtIn.address, fmtIn.protocol)]
  /\ UNCHANGED <<fmtIn, helperIn, helperOut, files, kvCalls>>
  /\ UNCHANGED serveVars

NextFormat == Format

SpecFormat == InitFormat /\ [][NextFormat]_vars

\* ------------------------------------------------------------------ helpers

\* The largest number of times one registrar is invoked.
MaxInvocations == 3

\* What grpc.loadPackageDefinition returns: an object with the top-level
\* packages of the files.
LoadedValues ==
  {JsObject({}), JsObject({"grpc"}), JsObject({"plugin"}), JsObject({"grpc", "plugin"})}

\* The assert argument: left out, or a function that accepts everything,
\* nothing, the roots that hold the grpc package, or throws.
AssertKinds == {"undefined", "alwaysTrue", "alwaysFalse", "isLoadedRootHealth", "throws"}

\* assert(loaded), for an assert that returns.
AssertAccepts(assert, loaded) ==
  \/ assert = "alwaysTrue"
  \/ assert = "isLoadedRootHealth" /\ loaded.truthy /\ "grpc" \in loaded.keys

Returned(value) == [threw |-> FALSE, error |-> "none", value |-> value]

Thrown(error) == [threw |-> TRUE, error |-> error, value |-> JsUndefined]

ShapeError == "Loaded protos did not match expected shape"

\* A loader that never consults assert.
loadProtosUnchecked(opts, assert) ==
  IF ~opts.filesExist THEN Thrown("ENOENT") ELSE Returned(opts.loaded)

\* loadProtos({ files, includeDirs }, assert)
loadProtos(opts, assert) ==
  IF ~opts.filesExist THEN Thrown("ENOENT")
  ELSE LET loaded == opts.loaded
       IN  IF assert # "undefined"
           THEN IF assert = "throws" THEN Thrown("assert")
                ELSE IF AssertAccepts(assert, loaded) THEN Returned(loaded)
                ELSE Thrown(ShapeError)
           ELSE Returned(loaded)

\* The servers a registrar is invoked with.
Servers == {1, 2}

\* A registrar that swallows what register throws.
RegistrarSwallows(register, srv) ==
  [registerCalls |-> <<srv>>, result |-> Returned(JsUndefined)]

\* createRegistrar(register)(server): (server) => register(server). Gives the
\* servers register was called with and how the invocation ended.
Registrar(register, srv) ==
  [registerCalls |-> <<srv>>,
   result |-> IF srv \in register.throwsOn THEN Thrown("register")
              ELSE Returned(JsUndefined)]

HelperInputs ==
  [fn : {"loadProtos"}, filesExist : BOOLEAN, loaded : LoadedValues,
   assert : AssertKinds, throwsOn : {{}}]
  \cup
  [fn : {"createRegistrar"}, filesExist : {TRUE}, loaded : {JsUndefined},
   assert : {"undefined"}, throwsOn : SUBSET Servers]

NoHelperCalls == [invoked |-> <<>>, registerCalls |-> <<>>, results |-> <<>>]

InitHelpers ==
  /\ helperIn \in HelperInputs
  /\ helperOut = NoHelperCalls
  /\ files = <<>>
  /\ kvCalls = <<>>
  /\ fmtIn = [core |-> 1, app |-> 1, networkType |-> Tcp, address |-> <<>>,
              protocol |-> Grpc]
  /\ fmtOut = [done |-> FALSE]
  /\ InitServe([health |-> [file |-> TRUE, v1 |-> JsObject({"Health"})],
                internal |-> [stdioFile |-> FALSE, controllerFile |-> FALSE]])

\* One call of loadProtos on the arguments drawn in InitHelpers.
LoadProtos ==
  /\ helperIn.fn = "loadProtos"
  /\ helperOut.results = <<>>
  /\ helperOut' = [helperOut EXCEPT
                     !.results = <<loadProtos([filesExist |-> helperIn.filesExist,
                                               loaded |-> helperIn.loaded],
                                              helperIn.assert)>>]
  /\ UNCHANGED <<fmtIn, fmtOut, helperIn, files, kvCalls>>
  /\ UNCHANGED serveVars

\* One invocation of the function createRegistrar(register) returned.
InvokeRegistrar(srv) ==
  /\ helperIn.fn = "createRegistrar"
  /\ Len(helperOut.invoked) < MaxInvocations
  /\ LET r == Registrar([throwsOn |-> helperIn.throwsOn], srv)
     IN  helperOut' = [invoked |-> Append(helperOut.invoked, srv),
                       registerCalls |-> helperOut.registerCalls \o r.registerCalls,
                       results |-> Append(helperOut.results, r.result)]
  /\ UNCHANGED <<fmtIn, fmtOut, helperIn, files, kvCalls>>
  /\ UNCHANGED serveVars

NextHelpers ==
  \/ LoadProtos
  \/ \E srv \in Servers : InvokeRegistrar(srv)

SpecHelpers == InitHelpers /\ [][NextHelpers]_vars

\* ------------------------------------------------------------------- guards

\* The values the guards are given: undefined, null, primitives, and objects
\* with and without the keys.
GuardValues ==
  {JsUndefined, JsNull, JsString(TRUE), JsString(FALSE), JsNumber(TRUE), JsNumber(FALSE),
   JsObject({}), JsObject({"Health"}), JsObject({"plugin"}), JsObject({"Health", "plugin"})}

GuardNames == {"isGrpcHealthPackage", "isPluginInternalPackages"}

GuardInputs ==
  [fn : GuardNames, filesExist : {TRUE}, loaded : GuardValues, assert : {"undefined"},
   throwsOn : {{}}]

\* A guard is drawn with its argument, in a process whose health proto (when
\* the file is there) loads with that same value at grpc.health.v1.
InitGuards ==
  /\ helperIn \in GuardInputs
  /\ helperOut = NoHelperCalls
  /\ files = <<>>
  /\ kvCalls = <<>>
  /\ fmtIn = [core |-> 1, app |-> 1, networkType |-> Tcp, address |-> <<>>,
              protocol |-> Grpc]
  /\ fmtOut = [done |-> FALSE]
  /\ \E file \in BOOLEAN, f \in InternalEnv :
       InitServe([health |-> [file |-> file, v1 |-> helperIn.loaded], internal |-> f])

\* One call of the guard on the value drawn in InitGuards.
ApplyGuard ==
  /\ helperIn.fn \in GuardNames
  /\ helperOut.results = <<>>
  /\ helperOut' = [helperOut EXCEPT
                     !.results = <<IF helperIn.fn = "isGrpcHealthPackage"
                                   THEN isGrpcHealthPackage(helperIn.loaded)
                                   ELSE isPluginInternalPackages(helperIn.loaded)>>]
  /\ UNCHANGED <<fmtIn, fmtOut, helperIn, files, kvCalls>>
  /\ UNCHANGED serveVars

\* ------------------------------------------------------ the example KV service

\* The largest number of get and put calls made on the KV service in one run
\* of the plugin.
MaxKvCalls == 3

\* The largest number of calls the host has in flight at once.
MaxKvInFlight == 2

\* The keys the host asks for: the empty key and a plain key.
KvKeys == {<<>>, <<"a">>}

\* The values the host puts: no bytes, one byte, and two bytes.
KvValues == {<<>>, <<9>>, <<1, 2>>}

\* The length of the longest value the host puts.
MaxValueLen == 2

\* `kv_${key}`
Filename(key) == <<"k", "v", "_">> \o key

\* How opening the file for fsp.writeFile(filename, value) may end: it fails
\* when the name lies in a directory that does not exist, and may fail for
\* any name.
WriteOutcomes(filename) ==
  IF \E k \in 1..Len(filename) : filename[k] = "/" THEN {FALSE} ELSE {TRUE, FALSE}

\* The files once `filename` holds `data`.
WithFile(fs, filename, data) ==
  [f \in DOMAIN fs \cup {filename} |-> IF f = filename THEN data ELSE fs[f]]

\* How many calls have been answered.
KvAnswered == Cardinality({c \in 1..Len(kvCalls) : kvCalls[c].stage = "answered"})

\* The calls started and the calls answered so far: the time of the next one.
KvClock == Len(kvCalls) + KvAnswered + 1

\* How many calls are in flight.
KvInFlight == Len(kvCalls) - KvAnswered

\* How many calls this run of the plugin has taken.
KvMade == Cardinality({c \in 1..Len(kvCalls) : kvCalls[c].startAt > 0})

\* A put for the key 'a' that an earlier run of the plugin answered in the
\* same working directory (the host starts one plugin process per command).
EarlierPut(value) ==
  [op |-> "put", key |-> <<"a">>, value |-> value, stage |-> "answered",
   startAt |-> 0, doneAt |-> 0, error |-> FALSE, size |-> 0, pos |-> Len(value),
   resp |-> <<>>]

\* kvImpl.put up to `await fsp.writeFile(filename, value)`.
KvPut(key, value) ==
  /\ KvMade < MaxKvCalls
  /\ KvInFlight < MaxKvInFlight
  /\ kvCalls' = Append(kvCalls, [op |-> "put", key |-> key, value |-> value,
                                 stage |-> "started", startAt |-> KvClock,
                                 doneAt |-> 0, error |-> FALSE, size |-> 0,
                                 pos |-> 0, resp |-> <<>>])
  /\ UNCHANGED <<fmtIn, fmtOut, helperIn, helperOut, files>>
  /\ UNCHANGED serveVars

\* While put is suspended at its await, writeFile opens the file for writing,
\* which creates or empties it, or fails and leaves the files as they were.
\* A value of no bytes needs no write: writeFile is done once the file is open.
KvWriteOpen(c, ok) ==
  /\ c \in 1..Len(kvCalls)
  /\ kvCalls[c].op = "put" /\ kvCalls[c].stage = "started"
  /\ ok \in WriteOutcomes(Filename(kvCalls[c].key))
  /\ files' = IF ok THEN WithFile(files, Filename(kvCalls[c].key), <<>>) ELSE files
  /\ kvCalls' = [kvCalls EXCEPT
                   ![c].stage = IF ok /\ Len(kvCalls[c].value) > 0
                                THEN "opened" ELSE "settled",
                   ![c].error = ~ok]
  /\ UNCHANGED <<fmtIn, fmtOut, helperIn, helperOut>>
  /\ UNCHANGED serveVars

\* The bytes of a file that held `old` once `bytes` are written at the
\* offset `pos`: the file keeps what it held before and beyond them, and a
\* gap between its end and the offset reads as zero bytes.
WrittenAt(old, pos, bytes) ==
  [k \in 1..(IF Len(old) > pos + Len(bytes) THEN Len(old) ELSE pos + Len(bytes)) |->
     IF k > pos /\ k <= pos + Len(bytes) THEN bytes[k - pos]
     ELSE IF k <= Len(old) THEN old[k]
     ELSE 0]

\* Still at the await, writeFile writes in a loop: one write puts `count` of
\* the bytes not yet written at the position this put has reached in the
\* file, over what the file holds by then (another put may have emptied or
\* written it since), and the loop ends when the whole value is written; or
\* the write fails, which leaves the file as the earlier writes made it.
KvWriteData(c, ok, count) ==
  /\ c \in 1..Len(kvCalls)
  /\ kvCalls[c].op = "put" /\ kvCalls[c].stage = "opened"
  /\ count \in 1..(Len(kvCalls[c].value) - kvCalls[c].pos)
  /\ files' = IF ok
              THEN WithFile(files, Filename(kvCalls[c].key),
                            WrittenAt(files[Filename(kvCalls[c].key)],
                                      kvCalls[c].pos,
                                      SubSeq(kvCalls[c].value, kvCalls[c].pos + 1,
                                             kvCalls[c].pos + count)))
              ELSE files
  /\ kvCalls' = [kvCalls EXCEPT
                   ![c].stage = IF ok /\ kvCalls[c].pos + count < Len(kvCalls[c].value)
                                THEN "opened" ELSE "settled",
                   ![c].pos = IF ok THEN kvCalls[c].pos + count ELSE kvCalls[c].pos,
                   ![c].error = ~ok]
  /\ UNCHANGED <<fmtIn, fmtOut, helperIn, helperOut>>
  /\ UNCHANGED serveVars

\* kvImpl.put after the await: callback(null, {}), or callback(err) when
\* writeFile failed.
KvPutDone(c) ==
  /\ c \in 1..Len(kvCalls)
  /\ kvCalls[c].op = "put" /\ kvCalls[c].stage = "settled"
  /\ kvCalls' = [kvCalls EXCEPT ![c].stage = "answered", ![c].doneAt = KvClock]
  /\ UNCHANGED <<fmtIn, fmtOut, helperIn, helperOut, files>>
  /\ UNCHANGED serveVars

\* kvImpl.get up to `await fsp.readFile(filename).catch(...)`.
KvGet(key) ==
  /\ KvMade < MaxKvCalls
  /\ KvInFlight < MaxKvInFlight
  /\ kvCalls' = Append(kvCalls, [op |-> "get", key |-> key, value |-> <<>>,
                                 stage |-> "started", startAt |-> KvClock,
                                 doneAt |-> 0, error |-> FALSE, size |-> 0,
                                 pos |-> 0, resp |-> <<>>])
  /\ UNCHANGED <<fmtIn, fmtOut, helperIn, helperOut, files>>
  /\ UNCHANGED serveVars

\* How opening the file for fsp.readFile(filename) may end: it fails when
\* there is no such file, and may fail for a file that is there.
ReadOutcomes(fs, filename) == IF filename \in DOMAIN fs THEN {TRUE, FALSE} ELSE {FALSE}

\* While get is suspended at its await, readFile opens the file; when that
\* fails, the catch turns the failure into an empty Buffer.
KvReadOpen(c, ok) ==
  /\ c \in 1..Len(kvCalls)
  /\ kvCalls[c].op = "get" /\ kvCalls[c].stage = "started"
  /\ ok \in ReadOutcomes(files, Filename(kvCalls[c].key))
  /\ kvCalls' = [kvCalls EXCEPT ![c].stage = IF ok THEN "opened" ELSE "settled",
                                ![c].resp = <<>>]
  /\ UNCHANGED <<fmtIn, fmtOut, helperIn, helperOut, files>>
  /\ UNCHANGED serveVars

\* Still at the await, readFile takes the size the file has by then (a put
\* may have emptied or written it since the open); when that fails, the
\* catch turns the failure into an empty Buffer.
KvReadStat(c, ok) ==
  /\ c \in 1..Len(kvCalls)
  /\ kvCalls[c].op = "get" /\ kvCalls[c].stage = "opened"
  /\ kvCalls' = [kvCalls EXCEPT
                   ![c].stage = IF ok THEN "sized" ELSE "settled",
                   ![c].size = IF ok THEN Len(files[Filename(kvCalls[c].key)]) ELSE 0,
                   ![c].resp = <<>>]
  /\ UNCHANGED <<fmtIn, fmtOut, helperIn, helperOut, files>>
  /\ UNCHANGED serveVars

\* The bytes one read gives of a file that holds `data`, from the position
\* `pos` this get has reached: what the file holds from there, up to the size
\* taken before (to the end of the file when that size was 0).
ReadGives(data, size, pos) ==
  SubSeq(data, pos + 1,
         IF size > 0 /\ size < Len(data) THEN size ELSE Len(data))

\* Still at the await, readFile reads in a loop: one read gives the bytes
\* the file holds by then from the position this get has reached. The loop
\* ends when a read gives no bytes or the size taken before is reached;
\* after a read that gave fewer bytes, readFile reads again or returns what
\* it has, depending on the version of Node. When a read fails, the catch
\* turns the failure into an empty Buffer.
KvReadData(c, ok, again) ==
  /\ c \in 1..Len(kvCalls)
  /\ kvCalls[c].op = "get" /\ kvCalls[c].stage = "sized"
  /\ LET bytes == ReadGives(files[Filename(kvCalls[c].key)], kvCalls[c].size,
                            kvCalls[c].pos)
         total == kvCalls[c].pos + Len(bytes)
     IN kvCalls' = [kvCalls EXCEPT
                      ![c].stage = IF ok /\ again /\ Len(bytes) > 0
                                         /\ total # kvCalls[c].size
                                   THEN "sized" ELSE "settled",
                      ![c].pos = IF ok THEN total ELSE kvCalls[c].pos,
                      ![c].resp = IF ok THEN kvCalls[c].resp \o bytes ELSE <<>>]
  /\ UNCHANGED <<fmtIn, fmtOut, helperIn, helperOut, files>>
  /\ UNCHANGED serveVars

\* kvImpl.get after the await: callback(null, { value: data }) with the data
\* that was read.
KvGetDone(c) ==
  /\ c \in 1..Len(kvCalls)
  /\ kvCalls[c].op = "get" /\ kvCalls[c].stage = "settled"
  /\ kvCalls' = [kvCalls EXCEPT ![c].stage = "answered", ![c].doneAt = KvClock]
  /\ UNCHANGED <<fmtIn, fmtOut, helperIn, helperOut, files>>
  /\ UNCHANGED serveVars

\* The KV service in a working directory without kv_ files, or with the file
\* an earlier run has written for the key 'a'.
InitKv ==
  /\ fmtIn = [core |-> 1, app |-> 1, networkType |-> Tcp, address |-> <<>>,
              protocol |-> Grpc]
  /\ fmtOut = [done |-> FALSE]
  /\ helperIn = [fn |-> "none", filesExist |-> TRUE, loaded |-> JsUndefined,
                 assert |-> "undefined", throwsOn |-> {}]
  /\ helperOut = [invoked |-> <<>>, registerCalls |-> <<>>, results |-> <<>>]
  /\ \/ files = <<>> /\ kvCalls = <<>>
     \/ \E value \in KvValues :
          /\ files = WithFile(<<>>, Filename(<<"a">>), value)
          /\ kvCalls = <<EarlierPut(value)>>
  /\ InitServe([health |-> [file |-> TRUE, v1 |-> JsObject({"Health"})],
                internal |-> [stdioFile |-> FALSE, controllerFile |-> FALSE]])

\* The host's get and put calls, several of them in flight at once, the file
\* operations made for them, and their answers.
NextKv ==
  \/ \E key \in KvKeys, value \in KvValues : KvPut(key, value)
  \/ \E c \in 1..(MaxKvCalls + 1), ok \in BOOLEAN : KvWriteOpen(c, ok)
  \/ \E c \in 1..(MaxKvCalls + 1), ok \in BOOLEAN, count \in 1..MaxValueLen :
       KvWriteData(c, ok, count)
  \/ \E c \in 1..(MaxKvCalls + 1) : KvPutDone(c)
  \/ \E key \in KvKeys : KvGet(key)
  \/ \E c \in 1..(MaxKvCalls + 1), ok \in BOOLEAN : KvReadOpen(c, ok)
  \/ \E c \in 1..(MaxKvCalls + 1), ok \in BOOLEAN : KvReadStat(c, ok)
  \/ \E c \in 1..(MaxKvCalls + 1), ok, again \in BOOLEAN : KvReadData(c, ok, again)
  \/ \E c \in 1..(MaxKvCalls + 1) : KvGetDone(c)

SpecKv == InitKv /\ [][NextKv]_vars

\* ------------------------------------------------------- writing to stdout

STDOUT == 1
STDERR == 2

\* A chunk given to write(): a string, a Buffer, or a Uint8Array that is no Buffer.
StringChunk(text) == [kind |-> "string", text |-> text, bytes |-> <<>>]
BufferChunk(bytes) == [kind |-> "buffer", text |-> <<>>, bytes |-> bytes]
Uint8Chunk(bytes) == [kind |-> "uint8array", text |-> <<>>, bytes |-> bytes]

\* forward(): Buffer.isBuffer(chunk) ? chunk : Buffer.from(String(chunk))
ForwardData(chunk) ==
  IF chunk.kind = "buffer" THEN chunk.bytes
  ELSE IF chunk.kind = "string" THEN Utf8(chunk.text)
  ELSE Utf8(JoinComma(chunk.bytes))

\* Wrappers installed on the wrong sink.
LayersOfSwapped(fd) == IF fd = STDOUT THEN stderrWrite ELSE stdoutWrite

\* The hex digits in lower and in upper case, each in the order of its value.
HexDigits ==
  <<"0", "1", "2", "3", "4", "5", "6", "7", "8", "9", "a", "b", "c", "d", "e", "f">>

HexDigitsUpper ==
  <<"0", "1", "2", "3", "4", "5", "6", "7", "8", "9", "A", "B", "C", "D", "E", "F">>

IsHexDigit(c) == \E d \in 1..16 : HexDigits[d] = c \/ HexDigitsUpper[d] = c

HexVal(c) == (CHOOSE d \in 1..16 : HexDigits[d] = c \/ HexDigitsUpper[d] = c) - 1

RECURSIVE HexDecode(_)
\* Buffer.from(text, 'hex'): one byte for every two hex digits, up to the
\* first pair that is not two hex digits.
HexDecode(text) ==
  IF Len(text) < 2 \/ ~IsHexDigit(text[1]) \/ ~IsHexDigit(text[2]) THEN <<>>
  ELSE <<16 * HexVal(text[1]) + HexVal(text[2])>> \o HexDecode(SubSeq(text, 3, Len(text)))

\* The encoding arguments given to write(): none, or 'hex'.
WriteEncodings == {"none", "hex"}

\* The bytes original(chunk, encoding, cb) puts on the real stdout or stderr.
LocalBytes(chunk, encoding) ==
  IF chunk.kind = "string"
  THEN IF encoding = "hex" THEN HexDecode(chunk.text) ELSE Utf8(chunk.text)
  ELSE chunk.bytes

\* The interception layers a write to `fd` goes through.
LayersOf(fd) == IF fd = STDOUT THEN stdoutWrite ELSE stderrWrite

\* The layers at which stdioStream.write may raise: those whose stream is
\* attached although it has been cancelled or closed under it.
RaisableLayers(fd) ==
  {k \in 1..Len(LayersOf(fd)) :
     /\ stdioStream[LayersOf(fd)[k].inst] # 0
     /\ streams[stdioStream[LayersOf(fd)[k].inst]].state = "dead"}

RECURSIVE Mirror(_, _, _, _, _)
\* The wrappers from layer k inwards: each calls forward(channel, chunk) and
\* then the write it wrapped. raiseAt is the layer whose stream write raises
\* (0: none does). Gives the streams afterwards and whether the call threw
\* before it reached the original write.
Mirror(layers, k, chunk, strms, raiseAt) ==
  IF k = 0 THEN [streams |-> strms, threw |-> FALSE]
  ELSE LET s == stdioStream[layers[k].inst]
       IN  IF s = 0 THEN Mirror(layers, k - 1, chunk, strms, raiseAt)
           ELSE IF k = raiseAt THEN [streams |-> strms, threw |-> TRUE]
           ELSE Mirror(layers, k - 1, chunk,
                       [strms EXCEPT ![s].records =
                          Append(@, [channel |-> layers[k].channel,
                                     data |-> ForwardData(chunk)])],
                       raiseAt)

\* process.stdout.write(chunk, encoding) or process.stderr.write(chunk, encoding)
\* as currently installed; `by` tells whose write it is (0: the plugin's own
\* code, i: the handshake of servePlugin call i).
ProcessWrite(fd, chunk, encoding, by, raiseAt) ==
  LET r == Mirror(LayersOf(fd), Len(LayersOf(fd)), chunk, streams, raiseAt)
  IN  /\ streams' = r.streams
      /\ realOut' = IF r.threw THEN realOut
                    ELSE Append(realOut, [fd |-> fd, chunk |-> chunk,
                                          encoding |-> encoding, by |-> by])

\* Whether that write throws.
ProcessWriteThrows(fd, chunk, raiseAt) ==
  Mirror(LayersOf(fd), Len(LayersOf(fd)), chunk, streams, raiseAt).threw

\* --------------------------------------------------------------- servePlugin

\* options.networkType ?? 'tcp'
NetworkTypeOf(o) == IF o.networkType = Undefined THEN Tcp ELSE o.networkType

\* loadHealthDefinition: the package, or the error it throws.
LoadHealthDefinition(h) ==
  IF ~h.file THEN [ok |-> FALSE, error |-> "ENOENT"]
  ELSE IF isGrpcHealthPackage(h.v1) THEN [ok |-> TRUE, error |-> "none"]
  ELSE [ok |-> FALSE, error |-> "Failed loading grpc.health.v1 package definition"]

\* loadInternalPluginDefinition: undefined when grpc_stdio.proto is in none of
\* the candidate directories; otherwise both files are loaded (which throws
\* when grpc_controller.proto is missing) and the plugin package is returned.
LoadInternalPluginDefinition(f) ==
  IF ~f.stdioFile THEN [threw |-> FALSE, defined |-> FALSE, plugin |-> {}]
  ELSE IF ~f.controllerFile THEN [threw |-> TRUE, defined |-> FALSE, plugin |-> {}]
  ELSE LET loaded == JsObject({"plugin"})
       IN  IF isPluginInternalPackages(loaded)
           THEN [threw |-> FALSE, defined |-> TRUE,
                 plugin |-> {"GRPCStdio", "GRPCController"}]
           ELSE [threw |-> FALSE, defined |-> FALSE, plugin |-> {}]

\* A registration whose exception is swallowed.
RegisterThrowsNever(o) == FALSE

\* Whether options.register(server) throws.
RegisterThrows(o) == o.register = "throws"

\* A handshake line without the newline.
HandshakeLineNoNewline(o, networkType, advertisedAddress) ==
  formatHandshake(1, o.appProtocolVersion, networkType, advertisedAddress, Grpc)

\* handshake + '\n', as given to process.stdout.write.
HandshakeLine(o, networkType, advertisedAddress) ==
  formatHandshake(1, o.appProtocolVersion, networkType, advertisedAddress, Grpc)
    \o <<NEWLINE>>

\* A server that is bound but was never started.
StartedServerNotStarted(s) == [s EXCEPT !.bound = TRUE]

\* The server once bindAsync has succeeded and server.start() has run.
StartedServer(s) == [s EXCEPT !.bound = TRUE, !.started = TRUE]

\* A call that returns the address it asked to bind.
SettleRequested(i, ok, address, error) ==
  result' = [result EXCEPT ![i] =
               [settled |-> TRUE, ok |-> ok, server |-> IF ok THEN i ELSE 0,
                address |-> IF ok THEN bindAddress[i] ELSE address, error |-> error]]

\* The promise of call i settles: return { server, address } or a rejection.
Settle(i, ok, address, error) ==
  result' = [result EXCEPT ![i] =
               [settled |-> TRUE, ok |-> ok, server |-> IF ok THEN i ELSE 0,
                address |-> address, error |-> error]]

\* servePlugin(o), up to its first await: the server is created, the Health
\* definition loaded and the Health service added; then the internal
\* definitions are awaited.
Call(i, o) ==
  /\ pc[i] = "idle"
  /\ \A j \in 1..(i - 1) : pc[j] # "idle"
  /\ exitCode = -1
  /\ options' = [options EXCEPT ![i] = o]
  /\ LET health == LoadHealthDefinition(env.health)
     IN  IF health.ok
         THEN /\ statusMap' = [statusMap EXCEPT ![i] = InitialStatusMap]
              /\ server' = [server EXCEPT ![i] = [NoServer EXCEPT !.services = <<"Health">>]]
              /\ log' = [log EXCEPT ![i] = <<"newServer", "addHealth">>]
              /\ pc' = [pc EXCEPT ![i] = "awaitInternal"]
              /\ UNCHANGED result
         ELSE /\ pc' = [pc EXCEPT ![i] = "rejected"]
              /\ Settle(i, FALSE, <<>>, health.error)
              /\ log' = [log EXCEPT ![i] = <<"newServer", "throw">>]
              /\ UNCHANGED <<statusMap, server>>
  /\ UNCHANGED <<fmtVars, env, bindAddress, stdoutWrite, stderrWrite, rpcVars, outVars>>

\* A servePlugin that runs the caller's register before the internal services.
RegistrationEventsUserFirst(stdio, controller, registerRuns) ==
  (IF registerRuns THEN <<"register">> ELSE <<>>)
    \o (IF stdio THEN <<"wrapStdio", "addStdio">> ELSE <<>>)
    \o (IF controller THEN <<"addController">> ELSE <<>>)

\* What servePlugin does between the internal definitions and the bind: the
\* stdio service with its interception, the controller, the caller's register.
RegistrationEvents(stdio, controller, registerRuns) ==
  (IF stdio THEN <<"wrapStdio", "addStdio">> ELSE <<>>)
    \o (IF controller THEN <<"addController">> ELSE <<>>)
    \o (IF registerRuns THEN <<"register">> ELSE <<>>)

\* A servePlugin that asks for the bind before it registers anything more.
StartupEventsBindFirst(stdio, controller, registerRuns, failed) ==
  (IF failed THEN <<>> ELSE <<"bindAsync">>)
    \o RegistrationEvents(stdio, controller, registerRuns)
    \o (IF failed THEN <<"throw">> ELSE <<>>)

\* The registrations, and then the bind request or the exception.
StartupEvents(stdio, controller, registerRuns, failed) ==
  RegistrationEvents(stdio, controller, registerRuns)
    \o (IF failed THEN <<"throw">> ELSE <<"bindAsync">>)

\* An interception installed whether or not there is a stdio service.
InstallWriteAlways(layers, stdio, i, channel) ==
  Append(layers, [inst |-> i, channel |-> channel])

\* if (stdioSvc) { ... process.stdout.write = wrapWrite(origStdoutWrite, channel) }:
\* the write entry point gets one more layer, which forwards for call i.
InstallWrite(layers, stdio, i, channel) ==
  IF stdio THEN Append(layers, [inst |-> i, channel |-> channel]) ELSE layers

\* servePlugin after `await loadInternalPluginDefinition()`: GRPCStdio (with
\* the stdout/stderr interception) and GRPCController are added when defined,
\* the caller's register runs, and the bind is requested.
ResumeInternal(i) ==
  /\ pc[i] = "awaitInternal"
  /\ exitCode = -1
  /\ LET o == options[i]
         internal == LoadInternalPluginDefinition(env.internal)
         stdio == internal.defined /\ "GRPCStdio" \in internal.plugin
         controller == internal.defined /\ "GRPCController" \in internal.plugin
         registerRuns == ~internal.threw /\ o.register # "none"
         registerThrew == registerRuns /\ RegisterThrows(o)
         failed == internal.threw \/ registerThrew
     IN  /\ stdoutWrite' = InstallWrite(stdoutWrite, stdio, i, STDOUT)
         /\ stderrWrite' = InstallWrite(stderrWrite, stdio, i, STDERR)
         /\ server' = [server EXCEPT ![i].services =
                         @ \o (IF stdio THEN <<"GRPCStdio">> ELSE <<>>)
                           \o (IF controller THEN <<"GRPCController">> ELSE <<>>)
                           \o (IF registerRuns /\ ~registerThrew THEN <<"user">> ELSE <<>>)]
         /\ log' = [log EXCEPT ![i] =
                      @ \o StartupEvents(stdio, controller, registerRuns, failed)]
         /\ IF failed
            THEN /\ pc' = [pc EXCEPT ![i] = "rejected"]
                 /\ Settle(i, FALSE, <<>>, IF internal.threw THEN "ENOENT" ELSE "register")
                 /\ UNCHANGED bindAddress
            ELSE /\ pc' = [pc EXCEPT ![i] = "awaitBind"]
                 /\ bindAddress' = [bindAddress EXCEPT ![i] =
                                      BindAddress(NetworkTypeOf(o), o.address)]
                 /\ UNCHANGED result
  /\ UNCHANGED <<fmtVars, env, options, statusMap, rpcVars, outVars>>

\* servePlugin after the bindAsync callback: on an error the promise rejects;
\* otherwise the advertised address is computed, the server started and the
\* handshake line written to process.stdout.
BindDone(i, outcome, raiseAt) ==
  /\ pc[i] = "awaitBind"
  /\ exitCode = -1
  /\ outcome \in BindOutcomes(NetworkTypeOf(options[i]), bindAddress[i])
  /\ raiseAt \in {0} \cup RaisableLayers(STDOUT)
  /\ IF ~outcome.ok
     THEN /\ raiseAt = 0
          /\ pc' = [pc EXCEPT ![i] = "rejected"]
          /\ Settle(i, FALSE, <<>>, "bind")
          /\ log' = [log EXCEPT ![i] = @ \o <<"throw">>]
          /\ UNCHANGED <<server, outVars>>
     ELSE LET networkType == NetworkTypeOf(options[i])
              advertisedAddress == AdvertisedAddress(networkType, bindAddress[i], outcome.port)
              chunk == StringChunk(HandshakeLine(options[i], networkType, advertisedAddress))
              threw == ProcessWriteThrows(STDOUT, chunk, raiseAt)
          IN  /\ server' = [server EXCEPT ![i] = [StartedServer(@) EXCEPT !.port = outcome.port]]
              /\ ProcessWrite(STDOUT, chunk, "none", i, raiseAt)
              /\ log' = [log EXCEPT ![i] =
                           @ \o <<"bound", "start", "handshake">>
                             \o (IF threw THEN <<"throw">> ELSE <<"return">>)]
              /\ IF threw
                 THEN /\ pc' = [pc EXCEPT ![i] = "rejected"]
                      /\ Settle(i, FALSE, <<>>, "write")
                 ELSE /\ pc' = [pc EXCEPT ![i] = "resolved"]
                      /\ Settle(i, TRUE, advertisedAddress, "none")
              /\ UNCHANGED writeCount
  /\ UNCHANGED <<fmtVars, env, options, statusMap, bindAddress, stdoutWrite, stderrWrite,
                 rpcVars>>

\* -------------------------------------------------------------- RPC handlers

\* A server that takes calls from the moment its services are registered.
ServingBeforeStart(i) ==
  pc[i] \in {"awaitBind", "resolved"} /\ ~server[i].shutdown /\ exitCode = -1

\* Server i takes calls: it has been started, not shut down, and the process runs.
Serving(i) == server[i].started /\ ~server[i].shutdown /\ exitCode = -1

HasService(i, name) == \E k \in 1..Len(server[i].services) : server[i].services[k] = name

\* Health.Check on server i: responds callback(null, { status }).
Check(i, request) ==
  /\ Serving(i)
  /\ HasService(i, "Health")
  /\ checkResp' = [inst |-> i, request |-> request,
                   status |-> CheckStatus(statusMap[i], request), error |-> FALSE]
  /\ UNCHANGED <<fmtVars, startVars, outVars, stdioStream, watches, shutdownResp,
                 exitTimers, exitCode>>

\* Health.Watch on server i: writes the current status on the call and returns,
\* leaving the call open.
Watch(i, request) ==
  /\ Serving(i)
  /\ HasService(i, "Health")
  /\ Len(watches) < MaxWatches
  /\ watches' = Append(watches, [inst |-> i, request |-> request,
                                 pushed |-> WatchResult(statusMap[i], request).pushed,
                                 ended |-> WatchResult(statusMap[i], request).ended,
                                 cancelled |-> FALSE])
  /\ UNCHANGED <<fmtVars, startVars, outVars, stdioStream, checkResp, shutdownResp,
                 exitTimers, exitCode>>

\* A cancellation that takes the server down with it.
CancelWatchStopsServer(w) ==
  /\ w \in 1..Len(watches)
  /\ exitCode = -1
  /\ ~watches[w].cancelled
  /\ watches' = [watches EXCEPT ![w].cancelled = TRUE]
  /\ server' = [server EXCEPT ![watches[w].inst].shutdown = TRUE]
  /\ UNCHANGED <<fmtVars, env, pc, options, statusMap, bindAddress, result, log,
                 stdoutWrite, stderrWrite, outVars, stdioStream, checkResp, shutdownResp,
                 exitTimers, exitCode>>

\* The host cancels Watch subscription w; the handler has no listener for it.
CancelWatch(w) ==
  /\ w \in 1..Len(watches)
  /\ exitCode = -1
  /\ ~watches[w].cancelled
  /\ watches' = [watches EXCEPT ![w].cancelled = TRUE]
  /\ UNCHANGED <<fmtVars, startVars, outVars, stdioStream, checkResp, shutdownResp,
                 exitTimers, exitCode>>

\* A handler that keeps the stream attached first.
StreamStdioFirstWins(i) ==
  /\ Serving(i)
  /\ HasService(i, "GRPCStdio")
  /\ Len(streams) < MaxStreams
  /\ streams' = Append(streams, [inst |-> i, state |-> "open", pending |-> {},
                                 records |-> <<>>])
  /\ stdioStream' = IF stdioStream[i] = 0
                    THEN [stdioStream EXCEPT ![i] = Len(streams) + 1]
                    ELSE stdioStream
  /\ UNCHANGED <<fmtVars, startVars, realOut, writeCount, watches, checkResp,
                 shutdownResp, exitTimers, exitCode>>

\* GRPCStdio.streamStdio on server i: stdioStream = call, and listeners for
\* 'cancelled' and 'close' are put on the call.
StreamStdio(i) ==
  /\ Serving(i)
  /\ HasService(i, "GRPCStdio")
  /\ Len(streams) < MaxStreams
  /\ streams' = Append(streams, [inst |-> i, state |-> "open", pending |-> {},
                                 records |-> <<>>])
  /\ stdioStream' = [stdioStream EXCEPT ![i] = Len(streams) + 1]
  /\ UNCHANGED <<fmtVars, startVars, realOut, writeCount, watches, checkResp,
                 shutdownResp, exitTimers, exitCode>>

\* The host cancels stream s (or its connection goes away): the call is dead
\* from now on, and its 'cancelled' and 'close' events are still to be emitted.
HostCancelStream(s) ==
  /\ s \in 1..Len(streams)
  /\ exitCode = -1
  /\ streams[s].state = "open"
  /\ streams' = [streams EXCEPT ![s].state = "dead", ![s].pending = {"cancelled", "close"}]
  /\ UNCHANGED <<fmtVars, startVars, rpcVars, realOut, writeCount>>

\* Listeners that leave the attachment as it is.
StreamEventKeepsAttachment(s, event) ==
  /\ s \in 1..Len(streams)
  /\ exitCode = -1
  /\ event \in streams[s].pending
  /\ streams' = [streams EXCEPT ![s].pending = @ \ {event}]
  /\ UNCHANGED <<fmtVars, startVars, realOut, writeCount, rpcVars>>

\* The 'cancelled' or 'close' listener of stream s runs: stdioStream = undefined.
StreamEvent(s, event) ==
  /\ s \in 1..Len(streams)
  /\ exitCode = -1
  /\ event \in streams[s].pending
  /\ streams' = [streams EXCEPT ![s].pending = @ \ {event}]
  /\ stdioStream' = [stdioStream EXCEPT ![streams[s].inst] = 0]
  /\ UNCHANGED <<fmtVars, startVars, realOut, writeCount, watches, checkResp,
                 shutdownResp, exitTimers, exitCode>>

\* A handler that passes the error of forceShutdown on to the host.
ShutdownEventsError(stopThrows, delivered) ==
  <<IF stopThrows THEN "forceShutdownThrew" ELSE "forceShutdown",
    IF stopThrows THEN "shutdownError"
    ELSE IF delivered THEN "shutdownResponse" ELSE "shutdownResponseDropped",
    "setImmediate">>

\* What the shutdown handler does, in order.
\* "shutdownResponse": callback(null, {}) was called and the response went to
\* the host; "shutdownResponseDropped": it was called on a call that
\* forceShutdown had cut, and nothing went to the host.
ShutdownEvents(stopThrows, delivered) ==
  <<IF stopThrows THEN "forceShutdownThrew" ELSE "forceShutdown",
    IF delivered THEN "shutdownResponse" ELSE "shutdownResponseDropped",
    "setImmediate">>

\* Whether the response of a Shutdown call can reach the host. forceShutdown
\* destroys every session of the server, the one that carries the Shutdown
\* call among them, before callback(null, {}) is called: whether grpc-js
\* still sends the response is its choice. A forceShutdown that threw may
\* have destroyed the session before it did, so the same holds then.
ResponseOutcomes(stopThrows) == {TRUE, FALSE}

\* Whether the server has been stopped when forceShutdown is over: it has
\* when forceShutdown returned; when it threw, it has if the sessions were
\* already destroyed (the response is dropped) and has not if the server was
\* left as it was.
Stopped(stopThrows, delivered) == ~stopThrows \/ ~delivered

\* A handler that stops the server gracefully: open calls are left to finish.
ShutdownGraceful(i, stopThrows, delivered) ==
  /\ Serving(i)
  /\ HasService(i, "GRPCController")
  /\ exitTimers < MaxShutdowns
  /\ delivered \in ResponseOutcomes(stopThrows)
  /\ server' = [server EXCEPT ![i].shutdown = Stopped(stopThrows, delivered)]
  /\ shutdownResp' = [shutdownResp EXCEPT ![i] = @ + 1]
  /\ exitTimers' = exitTimers + 1
  /\ log' = [log EXCEPT ![i] = @ \o ShutdownEvents(stopThrows, delivered)]
  /\ UNCHANGED <<fmtVars, env, pc, options, statusMap, bindAddress, result,
                 stdoutWrite, stderrWrite, outVars, watches, stdioStream, checkResp,
                 exitCode>>

\* A handler that calls process.exit(0) itself.
ShutdownExitsInside(i, stopThrows, delivered) ==
  /\ Serving(i)
  /\ HasService(i, "GRPCController")
  /\ exitTimers < MaxShutdowns
  /\ delivered \in ResponseOutcomes(stopThrows)
  /\ server' = [server EXCEPT ![i].shutdown = Stopped(stopThrows, delivered)]
  /\ shutdownResp' = [shutdownResp EXCEPT ![i] = @ + 1]
  /\ exitCode' = 0
  /\ log' = [log EXCEPT ![i] = @ \o ShutdownEvents(stopThrows, delivered)]
  /\ UNCHANGED <<fmtVars, env, pc, options, statusMap, bindAddress, result,
                 stdoutWrite, stderrWrite, outVars, watches, stdioStream, checkResp,
                 exitTimers>>

\* GRPCController.shutdown on server i: server.forceShutdown() inside try/catch
\* (stopThrows: it throws, before or after it has cut the sessions), then
\* callback(null, {}), then setImmediate(() => process.exit(0)).
Shutdown(i, stopThrows, delivered) ==
  /\ Serving(i)
  /\ HasService(i, "GRPCController")
  /\ exitTimers < MaxShutdowns
  /\ delivered \in ResponseOutcomes(stopThrows)
  /\ log' = [log EXCEPT ![i] = @ \o ShutdownEvents(stopThrows, delivered)]
  /\ server' = [server EXCEPT ![i].shutdown = Stopped(stopThrows, delivered)]
  /\ streams' = [s \in 1..Len(streams) |->
                   IF Stopped(stopThrows, delivered) /\ streams[s].inst = i
                      /\ streams[s].state = "open"
                   THEN [streams[s] EXCEPT !.state = "dead",
                                           !.pending = {"cancelled", "close"}]
                   ELSE streams[s]]
  /\ watches' = [w \in 1..Len(watches) |->
                   IF Stopped(stopThrows, delivered) /\ watches[w].inst = i
                   THEN [watches[w] EXCEPT !.cancelled = TRUE]
                   ELSE watches[w]]
  /\ shutdownResp' = [shutdownResp EXCEPT ![i] = @ + 1]
  /\ exitTimers' = exitTimers + 1
  /\ UNCHANGED <<fmtVars, env, pc, options, statusMap, bindAddress, result,
                 stdoutWrite, stderrWrite, realOut, writeCount, stdioStream, checkResp,
                 exitCode>>

\* A process that exits on its own.
ExitUnprompted ==
  /\ exitCode = -1
  /\ exitCode' = 0
  /\ UNCHANGED <<fmtVars, startVars, outVars, stdioStream, watches, checkResp,
                 shutdownResp, exitTimers>>

\* A setImmediate callback runs: process.exit(0).
Exit ==
  /\ exitTimers > 0
  /\ exitCode = -1
  /\ exitCode' = 0
  /\ UNCHANGED <<fmtVars, startVars, outVars, stdioStream, watches, checkResp,
                 shutdownResp, exitTimers>>

\* The chunks the plugin's own code writes.
ProgramChunks ==
  {StringChunk(<<"o", "k">>), BufferChunk(<<111, 107>>), Uint8Chunk(<<111, 107>>)}

\* The plugin's own code calls process.stdout.write or process.stderr.write.
ProgramWrite(fd, chunk, encoding, raiseAt) ==
  /\ exitCode = -1
  /\ writeCount < MaxWrites
  /\ raiseAt \in {0} \cup RaisableLayers(fd)
  /\ ProcessWrite(fd, chunk, encoding, 0, raiseAt)
  /\ writeCount' = writeCount + 1
  /\ UNCHANGED <<fmtVars, startVars, rpcVars>>

\* --------------------------------------------------------- one servePlugin call

\* The addresses given to servePlugin: hosts with and without a port, the
\* empty address, IPv6 literals, socket paths with and without the scheme.
StartupAddresses ==
  {<<"h">>, <<"h", ":", "0">>, <<"h", ":", "7">>, <<"h", ":">>, <<>>,
   <<":", "7">>, <<":", ":", "1">>, <<"[", ":", ":", "1", "]">>,
   <<"[", ":", ":", "1", "]", ":", "0">>,
   <<"/", "s">>, <<"u", "n", "i", "x", ":", "/", "s">>, <<"u", "n", "i", "x", ":">>,
   <<"u", "n", "i", "x">>,
   <<"u", "n", "i", "x", ":", "u", "n", "i", "x", ":", "/", "s">>}

StartupOptions ==
  [appProtocolVersion : {1, 42}, address : StartupAddresses,
   networkType : {Undefined, Tcp, Unix}, register : {"none", "ok", "throws"}]

InitStartup ==
  /\ FormatIdle
  /\ \E h \in HealthEnv, f \in InternalEnv : InitServe([health |-> h, internal |-> f])

\* One servePlugin call in a fresh process, for every option and file system,
\* with Health Checks once it serves.
NextStartup ==
  \/ \E o \in StartupOptions : Call(1, o)
  \/ ResumeInternal(1)
  \/ \E outcome \in BindOutcomes(NetworkTypeOf(options[1]), bindAddress[1]) :
       BindDone(1, outcome, 0)
  \/ \E request \in HealthRequests : Check(1, request)

SpecStartup == InitStartup /\ [][NextStartup]_vars

\* ------------------------------------------------------------------ the process

\* The options of the call whose bridge the host then talks to (every other
\* option is started under SpecStartup).
ProcessOptions ==
  {[appProtocolVersion |-> 1, address |-> <<"h">>, networkType |-> Undefined,
    register |-> "ok"]}

InitProcess ==
  /\ FormatIdle
  /\ \E f \in InternalEnv :
       InitServe([health |-> [file |-> TRUE, v1 |-> JsObject({"Health"})], internal |-> f])

Init == InitProcess

\* What the host has opened and the plugin has written so far; the process is
\* explored up to MaxLoad of these.
Load == Len(watches) + Len(streams) + writeCount

\* One servePlugin call and everything that may happen to the bridge it starts.
Next ==
  \/ \E o \in ProcessOptions : Call(1, o)
  \/ ResumeInternal(1)
  \/ \E outcome \in BindOutcomes(NetworkTypeOf(options[1]), bindAddress[1]) :
       BindDone(1, outcome, 0)
  \/ \E request \in HealthRequests : Check(1, request)
  \/ \E request \in HealthRequests : Load < MaxLoad /\ Watch(1, request)
  \/ \E w \in 1..MaxLoad : CancelWatch(w)
  \/ Load < MaxLoad /\ StreamStdio(1)
  \/ \E s \in 1..MaxLoad : HostCancelStream(s)
  \/ \E s \in 1..MaxLoad, event \in {"cancelled", "close"} : StreamEvent(s, event)
  \/ \E stopThrows \in BOOLEAN, delivered \in BOOLEAN : Shutdown(1, stopThrows, delivered)
  \/ Exit
  \/ \E fd \in {STDOUT, STDERR}, chunk \in ProgramChunks, raiseAt \in 0..1 :
       Load < MaxLoad /\ ProgramWrite(fd, chunk, "none", raiseAt)

Spec == Init /\ [][Next]_vars

\* ------------------------------------------------------------ the stdio bridge

\* The largest number of streams and writes taken together when the stdio
\* bridge is explored.
MaxStdio == 3

\* The streams opened and the writes made so far.
StdioLoad == Len(streams) + writeCount

\* One servePlugin call, the GRPCStdio streams the host opens, cancels and
\* closes on it, and the writes the plugin makes meanwhile.
NextStdio ==
  \/ \E o \in ProcessOptions : Call(1, o)
  \/ ResumeInternal(1)
  \/ \E outcome \in BindOutcomes(NetworkTypeOf(options[1]), bindAddress[1]) :
       BindDone(1, outcome, 0)
  \/ StdioLoad < MaxStdio /\ StreamStdio(1)
  \/ \E s \in 1..MaxStreams : HostCancelStream(s)
  \/ \E s \in 1..MaxStreams, event \in {"cancelled", "close"} : StreamEvent(s, event)
  \/ \E fd \in {STDOUT, STDERR}, chunk \in ProgramChunks, encoding \in WriteEncodings,
          raiseAt \in 0..1 :
       StdioLoad < MaxStdio /\ ProgramWrite(fd, chunk, encoding, raiseAt)

SpecStdio == InitProcess /\ [][NextStdio]_vars

\* ------------------------------------------- several servePlugin calls, one process

\* The options of the calls made one after another in one process.
CallsOptions ==
  {[appProtocolVersion |-> 1, address |-> <<"h">>, networkType |-> Undefined,
    register |-> r] : r \in {"ok", "throws"}}

\* Up to MaxCalls servePlugin calls in one process, each awaited before the
\* next is made, the streams the hosts attach to their servers, and the writes
\* the plugin makes.
NextCalls ==
  \/ \E i \in Instances, o \in CallsOptions :
       (\A j \in 1..(i - 1) : result[j].settled) /\ Call(i, o)
  \/ \E i \in Instances : ResumeInternal(i)
  \/ \E i \in Instances :
       \E outcome \in BindOutcomes(NetworkTypeOf(options[i]), bindAddress[i]) :
         BindDone(i, outcome, 0)
  \/ \E i \in Instances : StdioLoad < MaxStdio /\ StreamStdio(i)
  \/ \E fd \in {STDOUT, STDERR} :
       StdioLoad < MaxStdio /\ ProgramWrite(fd, StringChunk(<<"o", "k">>), "none", 0)

SpecCalls == InitProcess /\ [][NextCalls]_vars

\* ------------------------------------------------------- the example runner

\* address: '127.0.0.1'
RunnerAddress == <<"1", "2", "7", ".", "0", ".", "0", ".", "1">>

\* The options the example runner gives to servePlugin; its register adds the
\* KV service, and throws when server.addService does.
RunnerOptions ==
  {[appProtocolVersion |-> 1, address |-> RunnerAddress, networkType |-> Tcp,
    register |-> r] : r \in {"ok", "throws"}}

\* What console.error(err) gives to process.stderr.write: the error and a
\* newline (the message is kept as one symbol).
ErrorChunk(error) == StringChunk(<<error, NEWLINE>>)

\* A runner that exits with code 1 and prints nothing.
RunnerCatchSilent ==
  /\ exitCode = -1
  /\ result[1].settled /\ ~result[1].ok
  /\ exitCode' = 1
  /\ UNCHANGED <<fmtVars, startVars, outVars, stdioStream, watches, checkResp,
                 shutdownResp, exitTimers>>

\* The runner's .catch((err) => { console.error(err); process.exit(1) }) on
\* the promise of its servePlugin call.
RunnerCatch ==
  /\ exitCode = -1
  /\ result[1].settled /\ ~result[1].ok
  /\ ProcessWrite(STDERR, ErrorChunk(result[1].error), "none", 0, 0)
  /\ exitCode' = 1
  /\ UNCHANGED <<fmtVars, startVars, stdioStream, watches, checkResp, shutdownResp,
                 exitTimers, writeCount>>

\* The example runner in every file system: its one servePlugin call, the
\* catch handler, and the host's checks, stream and Shutdown.
NextRunner ==
  \/ \E o \in RunnerOptions : Call(1, o)
  \/ ResumeInternal(1)
  \/ \E outcome \in BindOutcomes(NetworkTypeOf(options[1]), bindAddress[1]) :
       BindDone(1, outcome, 0)
  \/ RunnerCatch
  \/ \E request \in HealthRequests : Check(1, request)
  \/ Load < MaxLoad /\ StreamStdio(1)
  \/ \E stopThrows \in BOOLEAN, delivered \in BOOLEAN : Shutdown(1, stopThrows, delivered)
  \/ Exit

\* The reaction of a rejected promise runs as a microtask, and a callback
\* given to setImmediate on the next turn of the event loop.
SpecRunner ==
  InitStartup /\ [][NextRunner]_vars /\ WF_vars(RunnerCatch) /\ WF_vars(Exit)

\* ---------------------------------------------------- the guards in servePlugin

\* The guard called on its own, and servePlugin called in that process.
NextGuards ==
  \/ ApplyGuard
  \/ Call(1, [appProtocolVersion |-> 1, address |-> <<"h">>, networkType |-> Undefined,
              register |-> "ok"])
  \/ ResumeInternal(1)
  \/ \E outcome \in BindOutcomes(NetworkTypeOf(options[1]), bindAddress[1]) :
       BindDone(1, outcome, 0)

SpecGuards == InitGuards /\ [][NextGuards]_vars

\* ------------------------------------------------------------------- shutdown

\* One servePlugin call, the subscriptions and streams the host opens on it,
\* the host's Shutdown calls, and the exit.
NextShutdown ==
  \/ \E o \in ProcessOptions : Call(1, o)
  \/ ResumeInternal(1)
  \/ \E outcome \in BindOutcomes(NetworkTypeOf(options[1]), bindAddress[1]) :
       BindDone(1, outcome, 0)
  \/ \E request \in HealthRequests : Load < MaxLoad /\ Watch(1, request)
  \/ Load < MaxLoad /\ StreamStdio(1)
  \/ \E s \in 1..MaxLoad, event \in {"cancelled", "close"} : StreamEvent(s, event)
  \/ \E stopThrows \in BOOLEAN, delivered \in BOOLEAN : Shutdown(1, stopThrows, delivered)
  \/ Exit

\* A callback given to setImmediate runs on the next turn of the event loop.
SpecShutdown == InitProcess /\ [][NextShutdown]_vars /\ WF_vars(Exit)

\* ------------------------------------------------------ claims: formatHandshake

\* The five arguments of the formatter call, each as the text it contributes.
FmtFields ==
  <<NumToStr(fmtIn.core), NumToStr(fmtIn.app), fmtIn.networkType, fmtIn.address,
    fmtIn.protocol>>

\* Where field k starts in the joined line: after the earlier fields and one
\* separator for each of them.
RECURSIVE FieldStart(_, _)
FieldStart(fields, k) ==
  IF k = 1 THEN 1 ELSE FieldStart(fields, k - 1) + Len(fields[k - 1]) + 1

\* C1. formatHandshake returns exactly the five values, in the order
\* core, app, network, address, protocol, separated by single '|' characters,
\* with nothing added (no whitespace, no trailing newline); for
\* (1, 42, tcp, 127.0.0.1:1234, grpc) the result is 1|42|tcp|127.0.0.1:1234|grpc.
C1_FormatIsPipeJoined ==
  fmtOut.done =>
    LET out == fmtOut.value
        f == FmtFields
    IN  /\ Len(out) = Len(f[1]) + Len(f[2]) + Len(f[3]) + Len(f[4]) + Len(f[5]) + 4
        /\ \A k \in 1..5 :
             SubSeq(out, FieldStart(f, k), FieldStart(f, k) + Len(f[k]) - 1) = f[k]
        /\ \A k \in 1..4 : out[FieldStart(f, k) + Len(f[k])] = PIPE
        /\ out[Len(out)] # NEWLINE
        /\ (fmtIn = [core |-> 1, app |-> 42, networkType |-> Tcp,
                     address |-> ExampleAddress, protocol |-> Grpc]
              => out = <<"1", "|", "4", "2", "|", "t", "c", "p", "|">>
                         \o ExampleAddress \o <<"|", "g", "r", "p", "c">>)

\* The formatter has returned for the documented example (1, 42, tcp,
\* 127.0.0.1:1234, grpc).
C1_Witness ==
  /\ fmtOut.done
  /\ fmtIn = [core |-> 1, app |-> 42, networkType |-> Tcp,
              address |-> ExampleAddress, protocol |-> Grpc]

\* C2 as stated: for every tuple, splitting the formatted line on '|' gives
\* back exactly the five fields, in order.
C2_SplitRecoversAll ==
  fmtOut.done => Split(fmtOut.value, PIPE) = FmtFields

\* C2, amended. When the address holds no '|' character, splitting the
\* formatted line on '|' gives back exactly the five fields, in order; an
\* address with n '|' characters makes the line split into 5 + n fields.
C2_SplitRecoversPipeFree ==
  fmtOut.done =>
    LET parts == Split(fmtOut.value, PIPE)
        nPipes == Cardinality({k \in 1..Len(fmtIn.address) : fmtIn.address[k] = PIPE})
    IN  /\ Len(parts) = 5 + nPipes
        /\ (nPipes = 0 => parts = FmtFields)

\* The formatter has returned for a pipe-free, non-empty address with a
\* two-digit application version.
C2_Witness ==
  /\ fmtOut.done
  /\ fmtIn.address = <<"a", ":", "a">>
  /\ fmtIn.app = 12

\* ---------------------------------------------------------- claims: servePlugin

\* The positions in realOut of the handshake lines written by call i.
HandshakesBy(i) == {k \in 1..Len(realOut) : realOut[k].by = i}

\* Where event ev first stands in the log of call i, 0 when it does not.
LogIndex(i, ev) ==
  IF \E k \in 1..Len(log[i]) : log[i][k] = ev
  THEN CHOOSE k \in 1..Len(log[i]) : log[i][k] = ev /\ \A j \in 1..(k - 1) : log[i][j] # ev
  ELSE 0

\* C3. A servePlugin call never writes more than one handshake line and
\* writes exactly one when it resolves; when the line is written the transport
\* has been bound and the server started, in that order, before the write.
C3_HandshakeOnceAfterStart ==
  \A i \in Instances :
    /\ Cardinality(HandshakesBy(i)) <= 1
    /\ Cardinality({k \in 1..Len(log[i]) : log[i][k] = "handshake"}) <= 1
    /\ (pc[i] = "resolved" => Cardinality(HandshakesBy(i)) = 1)
    /\ (HandshakesBy(i) # {} =>
          /\ server[i].bound
          /\ server[i].started
          /\ 0 < LogIndex(i, "bound")
          /\ LogIndex(i, "bound") < LogIndex(i, "start")
          /\ LogIndex(i, "start") < LogIndex(i, "handshake"))

\* A call has resolved and its one handshake line is on stdout.
C3_Witness ==
  /\ pc[1] = "resolved"
  /\ Cardinality(HandshakesBy(1)) = 1
  /\ realOut[1].fd = STDOUT

\* C4. The line a servePlugin call writes to stdout is formatHandshake(1,
\* appProtocolVersion, networkType, advertisedAddress, 'grpc') followed by one
\* newline: split on '|', its fields are 1, the configured application
\* version, the configured network kind (tcp when none is configured), the
\* address servePlugin returns, and grpc.
C4_HandshakeLineContent ==
  \A i \in Instances : \A k \in HandshakesBy(i) :
    LET line == realOut[k].chunk.text
        body == SubSeq(line, 1, Len(line) - 1)
        o == options[i]
        kind == IF o.networkType = Undefined THEN Tcp ELSE o.networkType
    IN  /\ realOut[k].fd = STDOUT
        /\ realOut[k].chunk.kind = "string"
        /\ Len(line) > 0
        /\ line[Len(line)] = NEWLINE
        /\ \A j \in 1..Len(body) : body[j] # NEWLINE
        /\ (pc[i] = "resolved" =>
              /\ body = formatHandshake(1, o.appProtocolVersion, kind, result[i].address, Grpc)
              /\ Split(body, PIPE) =
                   <<<<"1">>, NumToStr(o.appProtocolVersion), kind, result[i].address, Grpc>>)

\* A call without networkType and with application version 42 has resolved
\* and written its line.
C4_Witness ==
  /\ pc[1] = "resolved"
  /\ options[1].networkType = Undefined
  /\ options[1].appProtocolVersion = 42
  /\ HandshakesBy(1) # {}

\* C5. A servePlugin call whose Health definition cannot be loaded, whose
\* register callback throws or whose bind fails is rejected, and a rejected
\* call has written no handshake line: a call resolves only when the Health
\* definition loaded, register did not throw and the transport is bound.
C5_FailedStartupWritesNothing ==
  \A i \in Instances :
    /\ (pc[i] = "rejected" => result[i].settled /\ ~result[i].ok /\ HandshakesBy(i) = {})
    /\ (pc[i] = "resolved" =>
          /\ LoadHealthDefinition(env.health).ok
          /\ options[i].register # "throws"
          /\ server[i].bound)
    /\ (pc[i] # "idle" /\ ~LoadHealthDefinition(env.health).ok => pc[i] = "rejected")
    /\ (pc[i] \in {"awaitBind", "resolved"} => options[i].register # "throws")
    /\ (result[i].error = "bind" => pc[i] = "rejected" /\ ~server[i].started)

\* A call was rejected because its register callback threw, after the Health
\* service had been added.
C5_Witness ==
  /\ pc[1] = "rejected"
  /\ result[1].error = "register"
  /\ options[1].register = "throws"
  /\ HasService(1, "Health")

\* C7. Health Check never fails: it answers SERVING for 'plugin', answers
\* for the empty name (or no name) what it answers for 'plugin', and answers
\* SERVICE_UNKNOWN for a name that is not in the table.
C7_CheckAnswers ==
  checkResp.inst # 0 =>
    LET name == IF checkResp.request.hasService THEN checkResp.request.service ELSE ""
        table == statusMap[checkResp.inst]
    IN  /\ ~checkResp.error
        /\ (name = "plugin" => checkResp.status = SERVING)
        /\ (name = "" => checkResp.status = table["plugin"])
        /\ (name # "" /\ name \notin DOMAIN table => checkResp.status = SERVICE_UNKNOWN)

\* Check('') has been answered.
C7_Witness ==
  /\ checkResp.inst = 1
  /\ checkResp.request = [hasService |-> TRUE, service |-> ""]
  /\ checkResp.status = SERVING

\* What the claim calls an address that has no port: neither "host:port" nor
\* "[v6]:port".
NoPortGiven(address) == TargetPort(address) = -1

\* Whether string s ends with string e.
EndsWith(s, e) == Len(s) >= Len(e) /\ SubSeq(s, Len(s) - Len(e) + 1, Len(s)) = e

\* C9 as stated: with transport tcp and an address that has no port, ':0' is
\* appended to request an ephemeral port, and the returned address ends in
\* ':' and the port the bind assigned, which is greater than 0.
C9_NoPortRequestsEphemeral ==
  \A i \in Instances :
    (/\ pc[i] \in {"awaitBind", "resolved"}
     /\ NetworkTypeOf(options[i]) = Tcp
     /\ NoPortGiven(options[i].address))
    => /\ bindAddress[i] = options[i].address \o <<":", "0">>
       /\ (pc[i] = "resolved" =>
             /\ server[i].port > 0
             /\ EndsWith(result[i].address, <<":">> \o NumToStr(server[i].port))
             /\ ~EndsWith(result[i].address, <<":", "0">>))

\* C10. With transport unix the bind address and the returned address are
\* the given address when it starts with 'unix:' and 'unix:' followed by the
\* given address otherwise; normalising the result again changes nothing.
C10_UnixPrefixOnce ==
  \A i \in Instances :
    (pc[i] \in {"awaitBind", "resolved"} /\ NetworkTypeOf(options[i]) = Unix)
    => LET given == options[i].address
           expected == IF StartsWith(given, UnixPrefix) THEN given ELSE UnixPrefix \o given
       IN  /\ bindAddress[i] = expected
           /\ (pc[i] = "resolved" => result[i].address = expected)
           /\ BindAddress(Unix, bindAddress[i]) = bindAddress[i]
           /\ (StartsWith(bindAddress[i], UnixPrefix \o UnixPrefix)
                 => StartsWith(given, UnixPrefix))

\* A unix call whose address already carried the scheme has resolved with
\* the address unchanged.
C10_Witness ==
  /\ pc[1] = "resolved"
  /\ options[1].networkType = Unix
  /\ options[1].address = UnixPrefix \o <<"/", "s">>
  /\ result[1].address = options[1].address

\* ------------------------------------------------------------ claims: Health

\* C6. From the moment a server is started, its health table holds the entry
\* 'plugin' with status SERVING, whatever Check, Watch, stdio, forwarding and
\* Shutdown operations have run, up to and including process exit.
C6_PluginAlwaysServing ==
  \A i \in Instances :
    server[i].started =>
      /\ "plugin" \in DOMAIN statusMap[i]
      /\ statusMap[i]["plugin"] = SERVING

\* The bridge has served a Watch and a stdio stream, answered a Shutdown and
\* the process has exited.
C6_Witness ==
  /\ server[1].started
  /\ Len(watches) >= 1
  /\ Len(streams) >= 1
  /\ shutdownResp[1] >= 1
  /\ exitCode = 0

\* C8. Every Watch subscription has been pushed exactly one record, the
\* status Check would answer for the same request (SERVING for 'plugin', the
\* empty name or no name, SERVICE_UNKNOWN for an unknown name), and the
\* handler has not ended the stream.
C8_WatchPushesOnce ==
  \A w \in 1..Len(watches) :
    LET name == IF watches[w].request.hasService THEN watches[w].request.service ELSE ""
    IN  /\ Len(watches[w].pushed) = 1
        /\ watches[w].pushed[1] = CheckStatus(statusMap[watches[w].inst], watches[w].request)
        /\ (name \in {"", "plugin"} => watches[w].pushed[1] = SERVING)
        /\ (name = "other" => watches[w].pushed[1] = SERVICE_UNKNOWN)
        /\ ~watches[w].ended

\* Two subscriptions are open, one for an unknown name and one without a
\* name, and the first has since been cancelled.
C8_Witness ==
  /\ Len(watches) = 2
  /\ watches[1].request = [hasService |-> TRUE, service |-> "other"]
  /\ watches[1].cancelled
  /\ watches[2].request.hasService = FALSE

\* ------------------------------------------------- claims: what servePlugin returns

\* The address field of a handshake chunk written by call i: what stands
\* between "1|<app>|<network>|" and "|grpc\n".
HandshakeAddressField(i, text) ==
  LET prefix == NumToStr(1) \o <<PIPE>> \o NumToStr(options[i].appProtocolVersion)
                  \o <<PIPE>> \o NetworkTypeOf(options[i]) \o <<PIPE>>
      suffix == <<PIPE>> \o Grpc \o <<NEWLINE>>
  IN  SubSeq(text, Len(prefix) + 1, Len(text) - Len(suffix))

\* C11: whenever servePlugin resolves, the address it returns is the address
\* field of the handshake line it wrote, and the server it returns is the
\* server of that call, which is bound and started.
C11_ReturnsWhatItAdvertised ==
  \A i \in Instances :
    result[i].ok =>
      /\ result[i].server = i
      /\ server[i].bound /\ server[i].started
      /\ \A k \in HandshakesBy(i) :
           HandshakeAddressField(i, realOut[k].chunk.text) = result[i].address
      /\ HandshakesBy(i) # {}

\* A tcp call without a port resolved: it returns the host with the port the
\* bind assigned, which is not the address it asked to bind.
C11_Witness ==
  /\ result[1].ok
  /\ result[1].address = <<"h", ":", "8">>
  /\ bindAddress[1] = <<"h", ":", "0">>
  /\ HandshakesBy(1) # {}

\* ------------------------------------------------ claims: the internal services

\* C12: the Stdio Bridge service and the Shutdown Controller service are on
\* the server if and only if their definitions can be resolved at startup; the
\* Controller is there whenever grpc_controller.proto is, with or without
\* grpc_stdio.proto.
C12_InternalRegisteredIffResolvable ==
  \A i \in Instances :
    pc[i] = "resolved" =>
      /\ HasService(i, "GRPCStdio") <=> env.internal.stdioFile
      /\ HasService(i, "GRPCController") <=> env.internal.controllerFile

\* C13: a missing stdio or controller definition (either or both) never makes
\* servePlugin fail: a call is rejected only for a missing Health definition,
\* a register hook that throws, or a failed bind.
C13_MissingInternalNeverFails ==
  \A i \in Instances :
    pc[i] = "rejected" =>
      \/ ~LoadHealthDefinition(env.health).ok
      \/ RegisterThrows(options[i])
      \/ result[i].error = "bind"

\* ---------------------------------------------------- claims: the stdio bridge

\* The streams of a step whose records changed in it.
Mirrored(i) ==
  {s \in 1..Len(streams) : streams[s].inst = i /\ streams'[s].records # streams[s].records}

\* Stream s is the one opened last on server i.
Newest(i, s) == \A r \in 1..Len(streams) : streams[r].inst = i => r <= s

\* C14: a bridge has at most one stdio attachment; attaching a stream while
\* another is attached makes the new stream the attachment, and a write is
\* mirrored on no stream but the one attached, which is the newest.
C14_LastAttacherWins ==
  [][\A i \in Instances :
       /\ Len(streams') > Len(streams) /\ streams'[Len(streams')].inst = i
            => stdioStream'[i] = Len(streams')
       /\ Cardinality(Mirrored(i)) <= 1
       /\ \A s \in Mirrored(i) : s = stdioStream[i] /\ Newest(i, s)]_vars

\* A second stream was attached while the first was still open, and the write
\* made afterwards went to the second only.
C14_Witness ==
  /\ Len(streams) = 2
  /\ streams[1].state = "open" /\ streams[1].records = <<>>
  /\ streams[2].state = "open" /\ Len(streams[2].records) = 1
  /\ stdioStream[1] = 2

\* A listener of stream s runs in this step.
Delivered(s) ==
  /\ s <= Len(streams)
  /\ streams[s].state = "dead"
  /\ streams'[s].pending # streams[s].pending

\* C15: when the 'cancelled' or 'close' listener of the attached stream runs
\* the attachment is cleared; from then on no record is written on that
\* stream, and while nothing is attached a write changes no stream and still
\* reaches the real stdout or stderr.
C15_ClosedStreamDetaches ==
  [][\A i \in Instances :
       /\ \A s \in 1..Len(streams) :
            Delivered(s) /\ stdioStream[i] = s => stdioStream'[i] = 0
       /\ \A s \in 1..Len(streams) :
            streams[s].state = "dead" /\ streams[s].pending # {"cancelled", "close"}
              => streams'[s].records = streams[s].records
       /\ stdioStream[i] = 0 => Mirrored(i) = {}
       /\ (\A j \in Instances : stdioStream[j] = 0) /\ writeCount' > writeCount
            => Len(realOut') = Len(realOut) + 1]_vars

\* A write to stdout was mirrored on the attached stream; the host then
\* cancelled the stream, the listeners ran, and the write to stderr made
\* after that reached stderr only.
C15_Witness ==
  /\ Len(streams) = 1
  /\ streams[1].state = "dead" /\ streams[1].pending = {}
  /\ stdioStream[1] = 0
  /\ Len(streams[1].records) = 1 /\ streams[1].records[1].channel = STDOUT
  /\ Len(realOut) = 3
  /\ realOut[2].fd = STDOUT /\ realOut[2].by = 0
  /\ realOut[3].fd = STDERR /\ realOut[3].by = 0

\* C16: every write to stdout or stderr reaches the real stdout or stderr
\* exactly once, with or without a stream attached; with none attached no
\* record is produced and the write does not fail.
C16_EveryWriteReachesLocal ==
  [][writeCount' > writeCount =>
       /\ Len(realOut') = Len(realOut) + 1
       /\ \A i \in Instances : stdioStream[i] = 0 => Mirrored(i) = {}]_vars

\* C17: when mirroring a write onto the attached stream fails (a stream is
\* attached and the write puts no record on it), the write still reaches the
\* real stdout or stderr and nothing is raised to its caller.
C17_MirrorFailureIsSwallowed ==
  [][\A i \in Instances :
       writeCount' > writeCount /\ stdioStream[i] # 0 /\ Mirrored(i) = {}
         => Len(realOut') = Len(realOut) + 1]_vars

\* C18: while a stream is attached, every write that reaches the real stdout
\* or stderr appends one record to the end of the attached stream, tagged 1
\* for stdout and 2 for stderr: the records stand in the order of the writes.
C18_RecordsFollowWriteOrder ==
  [][\A i \in Instances :
       Len(realOut') > Len(realOut) /\ stdioStream[i] # 0 =>
         LET s == stdioStream[i]
             n == Len(streams[s].records)
         IN  /\ Len(realOut') = Len(realOut) + 1
             /\ Len(streams'[s].records) = n + 1
             /\ SubSeq(streams'[s].records, 1, n) = streams[s].records
             /\ streams'[s].records[n + 1].channel = realOut'[Len(realOut')].fd
             /\ realOut'[Len(realOut')].fd \in {STDOUT, STDERR}
             /\ STDOUT = 1 /\ STDERR = 2]_vars

\* A write to stderr and then a write to stdout, both mirrored on the
\* attached stream in that order.
C18_Witness ==
  /\ Len(streams) = 1
  /\ Len(realOut) = 3
  /\ realOut[2].fd = STDERR /\ realOut[3].fd = STDOUT
  /\ Len(streams[1].records) = 2
  /\ streams[1].records[1].channel = STDERR
  /\ streams[1].records[2].channel = STDOUT

\* C19: the interception is installed once per process: after any number of
\* servePlugin calls there is at most one layer on process.stdout.write and at
\* most one on process.stderr.write.
C19_InterceptionInstalledOnce ==
  /\ Len(stdoutWrite) <= 1
  /\ Len(stderrWrite) <= 1

\* ------------------------------------------------------------- claims: shutdown

\* Server i answers a Shutdown call in this step.
ShutdownStep(i) == shutdownResp'[i] = shutdownResp[i] + 1

\* C20: a Shutdown call on a serving bridge stops the server in the handler
\* itself, without waiting for open streams or subscriptions (forceShutdown
\* returning, the server takes no more calls and every open stream and Watch
\* of it is cut), answers, and schedules the exit; the process then exits
\* with code 0, whether or not a stream is attached or a Watch is open.
C20_ShutdownStopsAndExits ==
  /\ [][\A i \in Instances :
          ShutdownStep(i) =>
            /\ Serving(i)
            /\ exitTimers' = exitTimers + 1
            /\ exitCode' = -1
            /\ log'[i][Len(log'[i]) - 2] = "forceShutdown" =>
                 /\ server'[i].shutdown
                 /\ \A s \in 1..Len(streams) :
                      streams[s].inst = i => streams'[s].state = "dead"
                 /\ \A w \in 1..Len(watches) :
                      watches[w].inst = i => watches'[w].cancelled]_vars
  /\ (exitTimers > 0) ~> (exitCode = 0)

\* The process has exited with code 0 after a Shutdown that found a stream
\* attached and a Watch open, and cut both.
C20_Witness ==
  /\ exitCode = 0
  /\ server[1].shutdown
  /\ Len(streams) = 1 /\ streams[1].state = "dead" /\ stdioStream[1] = 1
  /\ Len(watches) = 1 /\ watches[1].cancelled

\* The k-th event from the end of what call i has done after this step.
LastEvent(i, k) == log'[i][Len(log'[i]) - k]

\* C21: for every Shutdown call the empty, successful response reaches the
\* calling host, and it does so before the process has terminated.
C21_ShutdownResponseReachesHost ==
  [][\A i \in Instances :
       ShutdownStep(i) => LastEvent(i, 1) = "shutdownResponse" /\ exitCode' = -1]_vars

\* C22: the Shutdown handler does not exit the process itself: it issues its
\* response, schedules the exit and returns with the process running; the
\* process exits, with status 0, in a later step in which no handler runs.
C22_ExitAfterHandlerReturns ==
  [][/\ \A i \in Instances :
          ShutdownStep(i) =>
            /\ exitCode' = -1
            /\ exitTimers' = exitTimers + 1
            /\ LastEvent(i, 1) \in {"shutdownResponse", "shutdownResponseDropped"}
            /\ LastEvent(i, 0) = "setImmediate"
     /\ exitCode' # exitCode =>
          /\ exitCode = -1 /\ exitCode' = 0
          /\ exitTimers > 0
          /\ shutdownResp' = shutdownResp
          /\ \E i \in Instances : shutdownResp[i] > 0]_vars

\* The handler has answered one Shutdown call and the process has exited.
C22_Witness ==
  /\ exitCode = 0
  /\ shutdownResp[1] = 1
  /\ log[1][Len(log[1])] = "setImmediate"

\* Call i's log holds event ev.
Logged(i, ev) == \E k \in 1..Len(log[i]) : log[i][k] = ev

\* C23: when server.forceShutdown() raises inside the Shutdown handler the
\* error is swallowed: the handler answers the call with success,
\* callback(null, {}), and never with an error (whether that answer still
\* reaches the host is, as for every Shutdown call, what C21 is about), the
\* exit is scheduled, and the process exits with status 0.
C23_StopErrorIsSwallowed ==
  /\ [][\A i \in Instances :
          ShutdownStep(i) /\ LastEvent(i, 2) = "forceShutdownThrew" =>
            /\ LastEvent(i, 1) \in {"shutdownResponse", "shutdownResponseDropped"}
            /\ shutdownResp'[i] = shutdownResp[i] + 1
            /\ exitCode' = -1
            /\ LastEvent(i, 0) = "setImmediate"
            /\ exitTimers' = exitTimers + 1]_vars
  /\ (\E i \in Instances : Logged(i, "forceShutdownThrew")) ~> (exitCode = 0)

\* The only Shutdown call found forceShutdown raising, was answered, and the
\* process exited with status 0.
C23_Witness ==
  /\ exitCode = 0
  /\ shutdownResp[1] = 1
  /\ Logged(1, "forceShutdownThrew")
  /\ Logged(1, "shutdownResponse")
  /\ ~Logged(1, "forceShutdown")

\* C24: once it serves, the bridge keeps serving: a started server is stopped
\* only by a Shutdown call, and the process exits only after a Shutdown call
\* was answered; closing streams, cancelling subscriptions and writing do
\* neither.
C24_ServesUntilShutdown ==
  [][/\ \A i \in Instances :
          /\ server[i].started => server'[i].started
          /\ server[i].started /\ server'[i].shutdown # server[i].shutdown
               => ShutdownStep(i) /\ server'[i].shutdown
     /\ exitCode' # exitCode => \E i \in Instances : shutdownResp[i] > 0]_vars

\* The bridge still serves after its stream was cancelled and closed and its
\* Watch subscription cancelled.
C24_Witness ==
  /\ Serving(1)
  /\ HandshakesBy(1) # {}
  /\ Len(streams) = 1 /\ streams[1].state = "dead" /\ streams[1].pending = {}
  /\ Len(watches) = 1 /\ watches[1].cancelled
  /\ shutdownResp[1] = 0

\* --------------------------------------------------------------- claims: helpers

\* C25: loadProtos with an assert function returns the loaded object when
\* assert(loaded) is true and throws 'Loaded protos did not match expected
\* shape' when it is false; without an assert function it returns the loaded
\* object and never throws that error.
C25_LoadProtosAsserts ==
  helperIn.fn = "loadProtos" /\ helperOut.results # <<>> =>
    LET r == helperOut.results[1]
        accepts == AssertAccepts(helperIn.assert, helperIn.loaded)
    IN  /\ helperIn.assert = "undefined" => r.error # ShapeError
        /\ helperIn.filesExist =>
             /\ helperIn.assert = "undefined" => r = Returned(helperIn.loaded)
             /\ helperIn.assert \in {"alwaysTrue", "alwaysFalse", "isLoadedRootHealth"} =>
                  /\ accepts => r = Returned(helperIn.loaded)
                  /\ ~accepts => r = Thrown(ShapeError)

\* loadProtos was given a guard that the loaded root does not pass, and threw.
C25_Witness ==
  /\ helperIn.fn = "loadProtos"
  /\ helperIn.assert = "isLoadedRootHealth"
  /\ helperIn.loaded = JsObject({"plugin"})
  /\ helperOut.results = <<Thrown(ShapeError)>>

\* C26: the function createRegistrar(register) returns calls register once
\* per invocation, with the server it was given, and what register throws
\* comes out of it.
C26_RegistrarCallsRegisterOnce ==
  helperIn.fn = "createRegistrar" =>
    /\ helperOut.registerCalls = helperOut.invoked
    /\ Len(helperOut.results) = Len(helperOut.invoked)
    /\ \A k \in 1..Len(helperOut.invoked) :
         helperOut.results[k] =
           IF helperOut.invoked[k] \in helperIn.throwsOn
           THEN Thrown("register") ELSE Returned(JsUndefined)

\* A registrar invoked with server 1, where register returns, and then with
\* server 2, where it throws.
C26_Witness ==
  /\ helperIn.fn = "createRegistrar"
  /\ helperIn.throwsOn = {2}
  /\ helperOut.invoked = <<1, 2>>
  /\ helperOut.registerCalls = <<1, 2>>
  /\ helperOut.results[2].threw

\* ------------------------------------------------------ claims: order of startup

\* The events that register a service.
RegistrationSteps == {"addHealth", "addStdio", "addController", "register"}

\* Where call i registered something.
RegisteredAt(i) == {k \in 1..Len(log[i]) : log[i][k] \in RegistrationSteps}

\* C27 as the specification states it: the transport is bound, then the
\* services are registered, then the server starts, then the handshake is
\* written; no service is registered before the transport is bound.
C27_BindThenRegister ==
  \A i \in Instances :
    pc[i] = "resolved" =>
      /\ \A k \in RegisteredAt(i) :
           LogIndex(i, "bound") < k /\ k < LogIndex(i, "start")
      /\ LogIndex(i, "start") < LogIndex(i, "handshake")

\* C27 as the code has it: every service is registered first, then the bind
\* is requested and completes, then the server starts, then the handshake is
\* written; no service is registered after the bind was requested.
C27_RegisterThenBind ==
  \A i \in Instances :
    Logged(i, "bindAsync") =>
      /\ \A k \in RegisteredAt(i) : k < LogIndex(i, "bindAsync")
      /\ RegisteredAt(i) # {}
      /\ Logged(i, "bound") =>
           /\ LogIndex(i, "bindAsync") < LogIndex(i, "bound")
           /\ LogIndex(i, "bound") < LogIndex(i, "start")
           /\ LogIndex(i, "start") < LogIndex(i, "handshake")
           /\ server[i].bound

\* A call that registered all four kinds of service resolved.
C27_Witness ==
  /\ pc[1] = "resolved"
  /\ Cardinality(RegisteredAt(1)) = 4
  /\ Logged(1, "handshake")

\* C28: the services are registered in a fixed order: Health, then the stdio
\* bridge, then the controller (each of the two only when it is available),
\* and last the caller's register, which runs at most once, exactly once in
\* a call that gets as far as the bind, and only after Health was added.
C28_RegistrationOrder ==
  \A i \in Instances :
    /\ \A a, b \in RegistrationSteps :
         Logged(i, a) /\ Logged(i, b) /\ LogIndex(i, a) < LogIndex(i, b) =>
           <<a, b>> \in {<<"addHealth", "addStdio">>, <<"addHealth", "addController">>,
                         <<"addHealth", "register">>, <<"addStdio", "addController">>,
                         <<"addStdio", "register">>, <<"addController", "register">>}
    /\ \A ev \in RegistrationSteps :
         Cardinality({k \in 1..Len(log[i]) : log[i][k] = ev}) <= 1
    /\ Logged(i, "addStdio") => env.internal.stdioFile /\ HasService(i, "GRPCStdio")
    /\ Logged(i, "addController") =>
         env.internal.controllerFile /\ HasService(i, "GRPCController")
    /\ Logged(i, "register") => Logged(i, "addHealth") /\ options[i].register # "none"
    /\ Logged(i, "bindAsync") /\ options[i].register # "none" => Logged(i, "register")
    /\ Logged(i, "bindAsync") => Logged(i, "addHealth")

\* Health, stdio, controller and the caller's register, in that order.
C28_Witness ==
  /\ Len(log[1]) >= 6
  /\ SubSeq(log[1], 2, 6) = <<"addHealth", "wrapStdio", "addStdio", "addController", "register">>
  /\ HasService(1, "user")

\* ---------------------------------------------------- claims: advertised address

\* The host part of a requested tcp address: a bracketed IPv6 literal with
\* its brackets, what stands before the colon of "host:port", or else the
\* whole address; 127.0.0.1 for an empty host.
RequestedHost(address) ==
  LET close == IndexOf(address, "]")
      colons == {k \in 1..Len(address) : address[k] = ":"}
      host == IF Len(address) > 0 /\ address[1] = "[" /\ close > 0
              THEN SubSeq(address, 1, close)
              ELSE IF Cardinality(colons) = 1
              THEN SubSeq(address, 1, IndexOf(address, ":") - 1)
              ELSE address
  IN  IF host = <<>> THEN Localhost ELSE host

\* C29: for tcp and every requested address, with or without a port, with
\* an empty host or a host that contains ':', the advertised address is the
\* host part of the requested address (127.0.0.1 when empty), a colon, and
\* the port the bind returned.
C29_AdvertisedIsBoundHostPort ==
  \A i \in Instances :
    result[i].ok /\ NetworkTypeOf(options[i]) = Tcp =>
      result[i].address =
        RequestedHost(options[i].address) \o <<":">> \o NumToStr(server[i].port)

\* ------------------------------------------------------ claims: mirrored payload

\* C30: while a stream is attached, every write that reaches the real stdout
\* or stderr puts exactly one record on the stream, and the payload of the
\* record is byte for byte what was written locally, for strings, Buffers and
\* other Uint8Arrays and for every encoding argument.
C30_PayloadIsWhatWasWritten ==
  [][\A i \in Instances :
       Len(realOut') > Len(realOut) /\ stdioStream[i] # 0 =>
         LET s == stdioStream[i]
             n == Len(streams[s].records)
             w == realOut'[Len(realOut')]
         IN  /\ Len(streams'[s].records) = n + 1
             /\ streams'[s].records[n + 1].data = LocalBytes(w.chunk, w.encoding)]_vars

\* ------------------------------------------------- claims: superseded streams

\* C31: when a listener of a stream that is no longer the attachment runs
\* while a stream attached after it is open, the newer stream stays attached.
C31_SupersededCloseKeepsNewer ==
  [][\A i \in Instances : \A s \in 1..Len(streams) :
       /\ Delivered(s) /\ streams[s].inst = i
       /\ stdioStream[i] # 0 /\ stdioStream[i] # s
       /\ streams[stdioStream[i]].state = "open"
       => stdioStream'[i] = stdioStream[i]]_vars

\* ------------------------------------------------- claims: cancelling a Watch

\* The host cancels Watch subscription w in this step (a Shutdown, which also
\* ends the subscriptions, is logged by its server).
WatchCancelled(w) ==
  /\ w <= Len(watches)
  /\ ~watches[w].cancelled /\ watches'[w].cancelled
  /\ log' = log

\* C32: cancelling a Health Watch subscription raises nothing (no call is
\* rejected, the process does not exit, no exit is scheduled) and leaves the
\* health status table, the stdio attachment and the server as they were.
C32_CancelWatchChangesNothing ==
  [][\A w \in 1..Len(watches) :
       WatchCancelled(w) =>
         /\ statusMap' = statusMap
         /\ stdioStream' = stdioStream
         /\ server' = server
         /\ result' = result /\ pc' = pc
         /\ exitCode' = exitCode /\ exitTimers' = exitTimers
         /\ streams' = streams /\ realOut' = realOut]_vars

\* A subscription was cancelled while a stdio stream was attached: the
\* stream is still attached and the server still serves with its table.
C32_Witness ==
  /\ Len(watches) = 1 /\ watches[1].cancelled
  /\ Len(log[1]) > 0 /\ log[1][Len(log[1])] = "return"
  /\ stdioStream[1] = 1 /\ streams[1].state = "open"
  /\ Serving(1)
  /\ statusMap[1] = InitialStatusMap

\* ------------------------------------------------- claims: the example runner

\* C33: in the example runner a servePlugin call that fails is followed by
\* the exit with code 1; the process exits with code 1 only after such a
\* failure, the error is then the last thing written to stderr and no
\* handshake line was written; an exit with code 0 follows a Shutdown call
\* on the started server.
C33_RunnerExitCodes ==
  /\ [](exitCode = 1 =>
          /\ result[1].settled /\ ~result[1].ok
          /\ HandshakesBy(1) = {}
          /\ \A k \in 1..Len(realOut) : realOut[k].fd # STDOUT
          /\ Len(realOut) > 0
          /\ realOut[Len(realOut)] =
               [fd |-> STDERR, chunk |-> ErrorChunk(result[1].error),
                encoding |-> "none", by |-> 0])
  /\ [](exitCode = 0 => result[1].ok /\ shutdownResp[1] > 0 /\ HandshakesBy(1) # {})
  /\ (result[1].settled /\ ~result[1].ok) ~> (exitCode = 1)

\* The runner's register threw after the stderr interception had been
\* installed; the error went through it to stderr and the process exited
\* with code 1.
C33_Witness ==
  /\ exitCode = 1
  /\ result[1].error = "register"
  /\ Len(stderrWrite) = 1
  /\ Len(realOut) = 1 /\ realOut[1].fd = STDERR

\* -------------------------------------------- claims: the interception's scope

\* The layers call i has put on the stdout and stderr write entry points.
LayersBy(i) ==
  {k \in 1..Len(stdoutWrite) : stdoutWrite[k].inst = i}
    \cup {k \in 1..Len(stderrWrite) : stderrWrite[k].inst = i}

\* C34: a servePlugin call that was rejected has left no interception layer
\* of its own on process.stdout.write or process.stderr.write.
C34_FailedStartupLeavesWritesAlone ==
  \A i \in Instances : pc[i] = "rejected" => LayersBy(i) = {}

\* C35: a servePlugin call has replaced process.stdout.write and
\* process.stderr.write exactly when it has registered the GRPCStdio service,
\* and it has replaced both or neither; a call for which the internal
\* definitions give no stdio service leaves both as they were.
C35_InterceptionIffStdioService ==
  \A i \in Instances :
    /\ LayersBy(i) # {} <=> HasService(i, "GRPCStdio")
    /\ (\E k \in 1..Len(stdoutWrite) : stdoutWrite[k].inst = i)
         <=> (\E k \in 1..Len(stderrWrite) : stderrWrite[k].inst = i)
    /\ pc[i] \notin {"idle", "awaitInternal"}
         /\ ~LoadInternalPluginDefinition(env.internal).defined
         => LayersBy(i) = {}

\* A call resolved without the stdio service (grpc_stdio.proto is in no
\* candidate directory): the handshake was written and the write entry
\* points have no layer.
C35_Witness ==
  /\ pc[1] = "resolved"
  /\ ~env.internal.stdioFile
  /\ ~HasService(1, "GRPCStdio")
  /\ stdoutWrite = <<>> /\ stderrWrite = <<>>
  /\ Len(realOut) = 1 /\ realOut[1].by = 1

\* ------------------------------------------------ claims: start and handshake

\* Call i writes its handshake line in this step.
HandshakeStep(i) == Len(log'[i]) > Len(log[i]) /\ Logged(i, "handshake")'

\* C36: the step in which a call writes its handshake is the step in which
\* its server starts: before it the server took no call, so no stream of its
\* own is attached and none exists, and the step writes no record on a
\* stream of that server.
C36_StartAndHandshakeTogether ==
  [][\A i \in Instances :
       HandshakeStep(i) /\ ~Logged(i, "handshake") =>
         /\ ~server[i].started /\ server'[i].started
         /\ stdioStream[i] = 0
         /\ \A s \in 1..Len(streams) : streams[s].inst # i
         /\ Mirrored(i) = {}]_vars

\* The second call's handshake went through the first call's interception
\* onto the first server's stream, and onto no stream of the second server.
C36_Witness ==
  /\ pc[2] = "resolved"
  /\ Len(streams) = 1 /\ streams[1].inst = 1
  /\ Len(streams[1].records) = 1
  /\ \E k \in HandshakesBy(2) :
       streams[1].records[1].data = ForwardData(realOut[k].chunk)
  /\ stdioStream[2] = 0

\* ------------------------------------------------- claims: the example KV service

\* Call c is a put for `key`.
PutFor(c, key) == kvCalls[c].op = "put" /\ kvCalls[c].key = key

\* Put p succeeded before get c was made, and every other put for the key
\* was answered before p was made: c follows p with no put in between.
Follows(c, p) ==
  /\ PutFor(p, kvCalls[c].key)
  /\ kvCalls[p].stage = "answered" /\ ~kvCalls[p].error
  /\ kvCalls[p].doneAt < kvCalls[c].startAt
  /\ \A q \in 1..Len(kvCalls) :
       q # p /\ PutFor(q, kvCalls[c].key) =>
         kvCalls[q].stage = "answered" /\ kvCalls[q].doneAt < kvCalls[p].startAt

\* Get c is answered in this step.
GetAnswered(c) ==
  kvCalls[c].op = "get" /\ kvCalls[c].stage # "answered" /\ kvCalls'[c].stage = "answered"

\* C37: a get is answered with a value, never with an error; a get made
\* after a put for its key succeeded, the earlier puts for the key answered
\* before that put was made, returns exactly the value of that put; and a
\* get for a key no put was made for returns the empty value.
C37_GetReturnsLastPut ==
  [][\A c \in 1..Len(kvCalls) :
       GetAnswered(c) =>
         /\ ~kvCalls'[c].error
         /\ \A p \in 1..Len(kvCalls) :
              Follows(c, p) => kvCalls'[c].resp = kvCalls[p].value
         /\ (\A q \in 1..Len(kvCalls) : ~PutFor(q, kvCalls[c].key))
              => kvCalls'[c].resp = <<>>]_vars

\* ------------------------------------------------------------- claims: guards

\* typeof value === 'object' and value is not null.
IsNonNullObject(value) == value.t = "object" /\ value # JsNull

IsPrimitive(value) == value.t \in {"undefined", "string", "number"}

HealthShapeError == "Failed loading grpc.health.v1 package definition"

\* C38: isGrpcHealthPackage(v) is true exactly when v is a non-null object
\* with a 'Health' key, so false for null, for primitives and for objects
\* without the key; and a servePlugin call whose health proto loaded is
\* rejected with 'Failed loading grpc.health.v1 package definition' exactly
\* when the guard is false for what was loaded.
C38_HealthGuard ==
  /\ helperIn.fn = "isGrpcHealthPackage" /\ helperOut.results # <<>> =>
       LET v == helperIn.loaded
           r == helperOut.results[1]
       IN  /\ r = (IsNonNullObject(v) /\ "Health" \in v.keys)
           /\ v = JsNull \/ IsPrimitive(v) => r = FALSE
           /\ IsNonNullObject(v) /\ "Health" \notin v.keys => r = FALSE
  /\ pc[1] # "idle" /\ env.health.file =>
       (result[1].error = HealthShapeError
          <=> ~(IsNonNullObject(env.health.v1) /\ "Health" \in env.health.v1.keys))
  /\ pc[1] # "idle" /\ ~env.health.file => result[1].error # HealthShapeError

\* The guard said false for an object without the Health key, and the
\* servePlugin call that loaded that object was rejected with the message.
C38_Witness ==
  /\ helperIn.fn = "isGrpcHealthPackage"
  /\ helperIn.loaded = JsObject({"plugin"})
  /\ helperOut.results = <<FALSE>>
  /\ env.health.file
  /\ pc[1] = "rejected" /\ result[1].error = HealthShapeError

\* C39: isPluginInternalPackages(v) is true exactly when v is a non-null
\* object with a 'plugin' key, so false for null, for primitives and for
\* objects without the key.
C39_PluginGuard ==
  helperIn.fn = "isPluginInternalPackages" /\ helperOut.results # <<>> =>
    LET v == helperIn.loaded
        r == helperOut.results[1]
    IN  /\ r = (IsNonNullObject(v) /\ "plugin" \in v.keys)
        /\ v = JsNull \/ IsPrimitive(v) => r = FALSE
        /\ IsNonNullObject(v) /\ "plugin" \notin v.keys => r = FALSE

\* The guard said true for an object with the plugin key.
C39_Witness ==
  /\ helperIn.fn = "isPluginInternalPackages"
  /\ helperIn.loaded = JsObject({"plugin"})
  /\ helperOut.results = <<TRUE>>

====
